---- MODULE Spec2Model ----
(***************************************************************************)
(* Job-orchestration runtime of the video summariser: the TTL cache        *)
(* (app/utils/cache_manager.py), the ProgressTracker that keeps one task   *)
(* record per job in that cache (utils/progress_tracker.py and             *)
(* app/utils/progress_tracker.py), the submit handler, the thread-per-job  *)
(* queue, the task runner and the controller with its playlist fan-out.    *)
(*                                                                         *)
(* The repository holds two trees.  src/app/ has the playlist fan-out;     *)
(* the top-level tree has the same submit handler, runner, tracker and     *)
(* single-video controller and no playlist branch.  The model follows      *)
(* src/app/; a job whose url is not a playlist takes, step for step, the   *)
(* path of the top-level tree.                                             *)
(*                                                                         *)
(* Strings that are concatenated by the code (namespaces, keys) are        *)
(* sequences of tokens, so that concatenation is \o.  Python's None for an *)
(* optional value is the empty sequence <<>>, a present value v is <<v>>.   *)
(* Timestamps stored inside the task record (start_time, last_update) and  *)
(* the description text are not modelled.                                  *)
(*                                                                         *)
(* Granularity.  One call of the cache (get, set, delete) is one step.     *)
(* A read-modify-write of the tracker is two steps of the calling thread   *)
(* (the get, then the set), so other threads interleave between them.      *)
(* Wall-clock time advances (Tick) once the handler has returned and the   *)
(* job thread has finished: the upstream calls of a running job have       *)
(* socket timeouts and a bounded number of retries, so two tracker writes  *)
(* of a running job are never a TTL (one hour) apart, and the clock        *)
(* decides nothing before the end.                                         *)
(*                                                                         *)
(* Specifications.  Spec is the whole job: handler, job thread, fan-out,   *)
(* poller.  TrackerSpec is the tracker under any order of calls.           *)
(* RunnerSpec is the single-item job with a clock that advances anywhere.  *)
(* CacheSpec is the CacheManager, from its construction on, under one      *)
(* caller; CacheThreadsSpec is its in-process backend under two threads,   *)
(* one step per access to a dict.  RetrySpec is one call of                *)
(* _retry_with_backoff.  SummarizeSpec is summarize_text with its rotation *)
(* of credentials, SummarizeWorkersSpec the same under two pool threads of *)
(* one job; FetchSpec is fetch_transcript_with_info with its metadata      *)
(* thread and the cache; ItemSpec is process_video, which calls both.      *)
(* FilterSpec and PercentageSpec apply _filter_transcript_by_time          *)
(* and the percentage of task_status to every input within the bounds.     *)
(* SubmitSpec is submit_task from the posted form on.  PoolSpec is the     *)
(* worker pool on playlists longer than its cap, FanInSpec the fan-in loop *)
(* with progress updates that raise.  Each specification leaves the        *)
(* variables of the others at rest.                                        *)
(***************************************************************************)
EXTENDS Integers, Sequences, FiniteSets, TLC

(***************************************************************************)
(* Bounds of the model                                                     *)
(***************************************************************************)
MaxItems == 3        \* longest playlist
MaxTicks == 2        \* how many times the clock advances
MaxOps == 4          \* tracker calls in the tracker-only specification
MaxCacheCalls == 3   \* cache calls in the cache-only specification
MaxRetries == 3      \* largest max_retries passed to _retry_with_backoff
MaxKeys == 3         \* most credentials in config.GEMINI_API_KEYS
MaxSummarizeCalls == 2  \* calls of summarize_text on one VideoModel
MaxFetchCalls == 2   \* calls of fetch_transcript_with_info for one id
MaxEntries == 2      \* longest artifact given to _filter_transcript_by_time
MaxTotal == 50       \* largest total_items of a record task_status reads
MaxPoolItems == 4    \* longest playlist handed to the worker pool

(***************************************************************************)
(* Program constants                                                       *)
(***************************************************************************)
default_ttl == 3600
PoolCap == 3

TASK_STATUS_PENDING == "pending"
TASK_STATUS_IN_PROGRESS == "in_progress"
TASK_STATUS_COMPLETED == "completed"
TASK_STATUS_FAILED == "failed"

Terminal == {TASK_STATUS_COMPLETED, TASK_STATUS_FAILED}

NoneStr == "<None>"  \* None in a field whose values are strings
None == <<>>         \* None for an optional structured value
Some(v) == <<v>>

\* the i-th id of the playlists get_playlist_info returns; from the third
\* on the ids repeat, so the longer playlists hold the same video twice
PlaylistId(i) == IF i % 2 = 1 THEN "X1" ELSE "X2"
Urls == {"bad", "video_noid", "video", "playlist"}

CACHE_NAMESPACE_PROGRESS == <<"progress">>
task_id == <<"t1">>

(***************************************************************************)
(* CacheManager, in-process backend: two dicts, _cache and _cache_expiry   *)
(***************************************************************************)
namespaced_key(namespace, key) == namespace \o <<":">> \o key

pickle_dumps(value) == [bytes |-> value]
pickle_loads(blob) == blob.bytes

Drop(f, k) == [x \in DOMAIN f \ {k} |-> f[x]]
Put(f, k, v) == [x \in DOMAIN f \cup {k} |-> IF x = k THEN v ELSE f[x]]
EmptyDict == [x \in {} |-> 0]

\* variant: an entry counts as expired already at its expiry time
Expired_at_ttl(st, nk, t) == nk \in DOMAIN st.e /\ t >= st.e[nk]

Expired(st, nk, t) == nk \in DOMAIN st.e /\ t > st.e[nk]

\* the two dicts after set_cached_data
set_cached_data(st, namespace, key, value, ttl_seconds, t) ==
    LET nk == namespaced_key(namespace, key)
        actual_ttl == IF ttl_seconds # None THEN ttl_seconds[1] ELSE default_ttl
    IN [c |-> Put(st.c, nk, pickle_dumps(value)),
        e |-> Put(st.e, nk, t + actual_ttl)]

\* variant: the truth value of the loaded object decides, not that of the
\* stored bytes
get_cached_data_falsy_is_absent(st, namespace, key, t) ==
    LET nk == namespaced_key(namespace, key)
    IN IF nk \in DOMAIN st.e /\ t > st.e[nk] THEN None
       ELSE IF nk \in DOMAIN st.c
               /\ (pickle_loads(st.c[nk]).n # 0
                   \/ pickle_loads(st.c[nk]).items # <<>>)
       THEN Some(pickle_loads(st.c[nk]))
       ELSE None

\* what get_cached_data returns
get_cached_data(st, namespace, key, t) ==
    LET nk == namespaced_key(namespace, key)
    IN IF Expired(st, nk, t) THEN None
       ELSE IF nk \in DOMAIN st.c THEN Some(pickle_loads(st.c[nk]))
       ELSE None

\* the two dicts after get_cached_data (it evicts an expired entry)
get_evict(st, namespace, key, t) ==
    LET nk == namespaced_key(namespace, key)
    IN IF Expired(st, nk, t)
       THEN [c |-> Drop(st.c, nk), e |-> Drop(st.e, nk)]
       ELSE st

delete_cached_data(st, namespace, key) ==
    LET nk == namespaced_key(namespace, key)
    IN [c |-> Drop(st.c, nk), e |-> Drop(st.e, nk)]

(***************************************************************************)
(* ProgressTracker: the record and its three mutations                     *)
(***************************************************************************)
NoDetails == [label |-> "", k |-> 0, n |-> 0]
Processed(k, n) == [label |-> "Processed", k |-> k, n |-> n]
OverallTask == [label |-> "Overall task", k |-> 0, n |-> 0]
UnknownItem == [label |-> "Unknown item", k |-> 0, n |-> 0]

\* the dict initialize_progress builds
initial_progress(total_items) ==
    [status |-> TASK_STATUS_PENDING,
     total_items |-> total_items,
     completed_items |-> 0,
     current_item_details |-> NoDetails,
     errors |-> <<>>,
     result |-> None]

\* the dict update_progress writes back; details and item_error are optional
updated_progress(pd, completed_increment, details, item_error) ==
    [pd EXCEPT
       !.status = TASK_STATUS_IN_PROGRESS,
       !.completed_items = pd.completed_items + completed_increment,
       !.current_item_details = IF details # None THEN details[1] ELSE @,
       !.errors = IF item_error # NoneStr /\ item_error # ""
                  THEN Append(@, [item_details |->
                                     IF details # None /\ details[1] # NoDetails
                                     THEN details[1] ELSE UnknownItem,
                                  error |-> item_error])
                  ELSE @]

\* the minimal dict _update_task_status makes up for a missing record; the
\* keys it leaves out (result, current_item_details) read as None / ''
minimal_progress(status) ==
    [status |-> status,
     total_items |-> 0,
     completed_items |-> 0,
     current_item_details |-> NoDetails,
     errors |-> <<>>,
     result |-> None]

\* variant: the record is made up anew even when one was read
status_updated_starts_afresh(got, status, result, error_message) ==
    [minimal_progress(status) EXCEPT
       !.result = IF result # None THEN result ELSE @,
       !.errors = IF error_message # NoneStr /\ error_message # ""
                  THEN Append(@, [item_details |-> OverallTask,
                                  error |-> error_message])
                  ELSE @]

\* variant: the new status is not stored into an existing record
status_updated_keeps_status(got, status, result, error_message) ==
    LET pd == IF got = None THEN minimal_progress(status) ELSE got[1]
    IN [pd EXCEPT
          !.result = IF result # None THEN result ELSE @,
          !.errors = IF error_message # NoneStr /\ error_message # ""
                     THEN Append(@, [item_details |-> OverallTask,
                                     error |-> error_message])
                     ELSE @]

\* the dict _update_task_status writes back; got is what the get returned
status_updated(got, status, result, error_message) ==
    LET pd == IF got = None THEN minimal_progress(status) ELSE got[1]
    IN [pd EXCEPT
          !.status = status,
          !.result = IF result # None THEN result ELSE @,
          !.errors = IF error_message # NoneStr /\ error_message # ""
                     THEN Append(@, [item_details |-> OverallTask,
                                     error |-> error_message])
                     ELSE @]

\* the whole calls, as one caller alone runs them: the two dicts afterwards
initialize_progress(st, task, total_items, t) ==
    set_cached_data(st, CACHE_NAMESPACE_PROGRESS, task,
                    initial_progress(total_items), None, t)

\* variant: a missing record is made up, as _update_task_status does
update_progress_creating(st, task, completed_increment, details, item_error, t) ==
    LET got == get_cached_data(st, CACHE_NAMESPACE_PROGRESS, task, t)
        st1 == get_evict(st, CACHE_NAMESPACE_PROGRESS, task, t)
        pd == IF got = None THEN minimal_progress(TASK_STATUS_PENDING)
              ELSE got[1]
    IN set_cached_data(st1, CACHE_NAMESPACE_PROGRESS, task,
                       updated_progress(pd, completed_increment, details,
                                        item_error),
                       None, t)

update_progress(st, task, completed_increment, details, item_error, t) ==
    LET got == get_cached_data(st, CACHE_NAMESPACE_PROGRESS, task, t)
        st1 == get_evict(st, CACHE_NAMESPACE_PROGRESS, task, t)
    IN IF got = None THEN st1
       ELSE set_cached_data(st1, CACHE_NAMESPACE_PROGRESS, task,
                            updated_progress(got[1], completed_increment,
                                             details, item_error),
                            None, t)

_update_task_status(st, task, status, result, error_message, t) ==
    LET got == get_cached_data(st, CACHE_NAMESPACE_PROGRESS, task, t)
        st1 == get_evict(st, CACHE_NAMESPACE_PROGRESS, task, t)
    IN set_cached_data(st1, CACHE_NAMESPACE_PROGRESS, task,
                       status_updated(got, status, result, error_message),
                       None, t)

cleanup_progress(st, task) ==
    delete_cached_data(st, CACHE_NAMESPACE_PROGRESS, task)

(***************************************************************************)
(* Results built by the controller                                         *)
(***************************************************************************)
Outcomes == {"ok", "empty", "upstream_error", "unexpected"}

ERR_UPSTREAM == "Failed to fetch transcript"
ERR_UNEXPECTED_ITEM == "unexpected error in item"
ERR_INVALID_URL == "Invalid YouTube URL provided."
ERR_NO_VIDEO_ID == "Failed to extract video ID"
ERR_PLAYLIST == "Failed to get playlist video IDs"
ERR_SERVICE_INIT == "Service initialization error."
ERR_UNEXPECTED == "An unexpected error occurred: ..."
ERR_CONTROLLER == "str(e) of a VideoControllerError"
ERR_UNEXPECTED_PROCESSING == "An unexpected error occurred during processing."

_build_video_data(video_id, transcript, summary, error) ==
    [id |-> video_id,
     transcript |-> transcript,
     summary_markdown |-> summary,
     error |-> error]

NoVideo == _build_video_data("", NoneStr, NoneStr, NoneStr)

\* a slot of the pre-sized list that still holds None
NullSlot == [id |-> NoneStr, transcript |-> NoneStr,
             summary_markdown |-> NoneStr, error |-> NoneStr]

\* what process_video returns for an item whose upstreams behave as outcome
\* (outcome "unexpected" is an exception that process_video does not catch)
process_video(video_id, outcome) ==
    LET video_data ==
          IF outcome = "ok"
          THEN _build_video_data(video_id, "text", "summary", NoneStr)
          ELSE IF outcome = "empty"
          THEN _build_video_data(video_id, "", NoneStr, NoneStr)
          ELSE _build_video_data(video_id, NoneStr, NoneStr, ERR_UPSTREAM)
    IN [is_playlist |-> FALSE, videos |-> <<video_data>>, error |-> NoneStr]

\* the worker body of the fan-out: it catches every exception
process_single_video(video_id, outcome) ==
    IF outcome = "unexpected"
    THEN _build_video_data(video_id, NoneStr, NoneStr, ERR_UNEXPECTED_ITEM)
    ELSE process_video(video_id, outcome).videos[1]

error_result(message) == [is_playlist |-> FALSE, videos |-> <<>>, error |-> message]

(***************************************************************************)
(* State                                                                   *)
(***************************************************************************)
VARIABLES
    cache,            \* CacheManager._cache
    cache_expiry,     \* CacheManager._cache_expiry
    now,              \* time.time()
    url,              \* the submitted link, by the way the controller treats it
    submit_pc,        \* position of the submit_task handler
    job_pc,           \* position of the job thread
    call,             \* arguments of the tracker call the job thread is in
    after,            \* where the job thread continues after that call
    progress_data,    \* the job thread's local copy between get and set
    result,           \* what process_video_or_playlist returned
    video_ids,        \* the playlist's ids
    playlist_results, \* the pre-sized slots
    completed_count,  \* the fan-in loop's counter
    futures,          \* per item: state of its pool task, how its upstreams
                      \* behaved and what process_single_video returned
    seen,             \* the answer the polling client got last
    ops,              \* tracker calls made (tracker-only specification)
    \* the CacheManager and its direct callers
    redis_url,        \* os.getenv('REDIS_URL'), "" when it is not set
    cm_pc,            \* position of CacheManager.__init__
    use_redis,        \* CacheManager.use_redis
    redis,            \* the keys of the external store and their expiry
    last,             \* the cache call made last, and what it returned
    cache_calls,      \* cache calls made so far
    th,               \* per calling thread: the cache call it is in
    \* one call of _retry_with_backoff
    func,             \* how func() ends on its 1st, 2nd, ... call
    max_retries,
    errors_to_retry,
    attempt,          \* the loop variable
    retry_pc,         \* position inside _retry_with_backoff
    func_calls,       \* calls of func() made
    slept,            \* the delays passed to time.sleep
    retry_out,        \* how the call ended: what it returned or raised
    \* VideoModel: the credentials and the callers of summarize_text
    api_keys,         \* per credential, how generate_content ends with it
    current_api_key_index,
    model,            \* the credential self.model was configured with
    sz,               \* per calling thread: its summarize_text call
    rotated,          \* the values current_api_key_index has taken
    summarize_calls,  \* calls of summarize_text made
    \* VideoModel: fetch_transcript_with_info and its metadata threads
    fetch,            \* the locals of the call that is running, or was last
    info_threads,     \* per call: the thread it started for _fetch_info
    fetch_calls,      \* calls of fetch_transcript_with_info made
    events,           \* the upstream calls and cache writes made so far
    \* functions of their arguments alone
    filter_args,      \* the arguments of _filter_transcript_by_time
    filter_ret,       \* what it returned
    percentage_args,  \* the counters of the record task_status has read
    percentage_ret,   \* the progress_percentage it answered
    \* submit_task before it enqueues
    request,          \* the form posted and the state of the application
    answer,           \* the error answer of submit_task, if it gave one
    \* VideoController.process_video
    built             \* the records _build_video_data has built, in order

cacheCallVars == <<redis_url, cm_pc, use_redis, redis, last, cache_calls, th>>
retryVars == <<func, max_retries, errors_to_retry, attempt, retry_pc,
               func_calls, slept, retry_out>>
summarizeVars == <<api_keys, current_api_key_index, model, sz, rotated,
                   summarize_calls>>

fetchVars == <<fetch, info_threads, fetch_calls, events>>

\* the resolution of one item and the pure functions of the handlers
filterVars == <<filter_args, filter_ret>>
percentageVars == <<percentage_args, percentage_ret>>
formVars == <<request, answer>>
pureVars == <<filterVars, percentageVars, formVars>>
controllerVars == <<built>>
itemVars == <<summarizeVars, fetchVars, pureVars, controllerVars>>

vars == <<cache, cache_expiry, now, url, submit_pc, job_pc, call, after,
          progress_data, result, video_ids, playlist_results, completed_count,
          futures, seen, ops, cacheCallVars, retryVars, itemVars>>

\* what the steps of the job, the handler, the poller and the clock leave alone
outsideJob == <<cacheCallVars, retryVars, itemVars>>

cacheVars == <<cache, cache_expiry>>
jobVars == <<job_pc, call, after, progress_data, result, video_ids,
             playlist_results, completed_count, futures>>

Store == [c |-> cache, e |-> cache_expiry]
SetStore(st) == cache' = st.c /\ cache_expiry' = st.e

Unpolled == [code |-> 0, status |-> ""]

NoCall == [status |-> "", result |-> None, error_message |-> NoneStr]
mark_task_failed(message) ==
    [status |-> TASK_STATUS_FAILED, result |-> None, error_message |-> message]
mark_task_completed(r) ==
    [status |-> TASK_STATUS_COMPLETED, result |-> Some(r), error_message |-> NoneStr]

\* get_progress as a reader sees it now
get_progress(task) == get_cached_data(Store, CACHE_NAMESPACE_PROGRESS, task, now)

\* the values the direct callers of the cache store: Python objects by
\* type, a number and the items of a container
PyValue(type, n, items) == [type |-> type, n |-> n, items |-> items]
PyNone == PyValue("NoneType", 0, <<>>)

CallerThreads == {"T1", "T2"}
IdleThread == [pc |-> "idle", namespaced_key |-> <<>>, keys_to_delete |-> {},
               exc |-> NoneStr]
NoCacheCall == [op |-> "", namespace |-> <<>>, key |-> <<>>, value |-> PyNone,
                ttl_seconds |-> None, t |-> 0, returned |-> None]

\* the module-level CacheManager() without REDIS_URL, no direct caller yet
CacheCallersIdle ==
    /\ redis_url = ""
    /\ cm_pc = "ready"
    /\ use_redis = FALSE
    /\ redis = [c |-> EmptyDict, e |-> EmptyDict]
    /\ last = NoCacheCall
    /\ cache_calls = 0
    /\ th = [t \in CallerThreads |-> IdleThread]

NotRun == [kind |-> "", value |-> "", call |-> 0]

\* no call of _retry_with_backoff
RetryIdle ==
    /\ func = <<>>
    /\ max_retries = 0
    /\ errors_to_retry = {}
    /\ attempt = 0
    /\ retry_pc = "idle"
    /\ func_calls = 0
    /\ slept = <<>>
    /\ retry_out = NotRun

\* a VideoModel with one credential and no call of summarize_text
Summarizers == {"W1", "W2"}
NoOutcome == [kind |-> "", value |-> ""]
IdleSummarizer == [pc |-> "idle", i |-> 0, index |-> 0, attempts |-> <<>>,
                   out |-> NoOutcome]
SummarizeIdle ==
    /\ api_keys = <<"ok">>
    /\ current_api_key_index = 0
    /\ model = Some(0)
    /\ sz = [w \in Summarizers |-> IdleSummarizer]
    /\ rotated = <<0>>
    /\ summarize_calls = 0

\* no call of fetch_transcript_with_info
NoFetchOut == [kind |-> "", text |-> <<>>, info |-> None, error |-> NoneStr]
IdleFetch == [pc |-> "idle", start_time |-> None, end_time |-> None,
              cached_transcript |-> None, cached_info |-> None,
              cached_slice |-> None, transcript_data |-> None,
              video_info |-> None, filtered_transcript |-> <<>>,
              out |-> NoFetchOut]
FetchIdle ==
    /\ fetch = IdleFetch
    /\ info_threads = <<>>
    /\ fetch_calls = 0
    /\ events = {}

\* no call of the functions
NoFilterArgs == [transcript_data |-> None, start_time |-> None,
                 end_time |-> None]
NoCounters == [completed_items |-> 0, total_items |-> 0]
FilterIdle ==
    /\ filter_args = NoFilterArgs
    /\ filter_ret = None
PercentageIdle ==
    /\ percentage_args = NoCounters
    /\ percentage_ret = None

\* a link as urlparse splits it: scheme://netloc/path?v=...
Link(scheme, netloc, path, v) ==
    [scheme |-> scheme, netloc |-> netloc, path |-> path, v |-> v]
EmptyLink == Link("", "", <<>>, NoneStr)
\* a prompt of chars characters between pad blanks on either side
Prompt(pad, chars) == [pad |-> pad, chars |-> chars]
\* request.form; a field that is absent reads as the empty string
Form(link, prompt, start_time, end_time) ==
    [link |-> link, prompt |-> prompt, start_time |-> start_time,
     end_time |-> end_time]
NoFields == Form(EmptyLink, Prompt(0, 0), <<>>, <<>>)
NoRequest == [video_controller |-> TRUE, form |-> NoFields]
FormIdle ==
    /\ request = NoRequest
    /\ answer = None

PureIdle ==
    /\ FilterIdle
    /\ PercentageIdle
    /\ FormIdle

ControllerIdle == built = <<>>

ItemIdle ==
    /\ SummarizeIdle
    /\ FetchIdle
    /\ PureIdle
    /\ ControllerIdle

Init ==
    /\ CacheCallersIdle
    /\ RetryIdle
    /\ ItemIdle
    /\ cache = EmptyDict
    /\ cache_expiry = EmptyDict
    /\ now = 0
    /\ url \in Urls
    /\ submit_pc = "enqueue"
    /\ job_pc = "idle"
    /\ call = NoCall
    /\ after = ""
    /\ progress_data = None
    /\ result = None
    /\ video_ids = <<>>
    /\ playlist_results = <<>>
    /\ completed_count = 0
    /\ futures = <<>>
    /\ seen = Unpolled
    /\ ops = 0

(***************************************************************************)
(* submit_task: enqueue on the thread-per-job queue, then initialize       *)
(***************************************************************************)
SubmitEnqueue ==
    /\ submit_pc = "enqueue"
    /\ submit_pc' = "initialize_progress"
    /\ job_pc' = "VideoController"
    /\ UNCHANGED <<cache, cache_expiry, now, url, call, after, progress_data,
                   result, video_ids, playlist_results, completed_count,
                   futures, seen, ops>>
    /\ UNCHANGED outsideJob

SubmitInitialize ==
    /\ submit_pc = "initialize_progress"
    /\ SetStore(initialize_progress(Store, task_id, 1, now))
    /\ submit_pc' = "done"
    /\ UNCHANGED <<now, url, seen, ops>>
    /\ UNCHANGED jobVars
    /\ UNCHANGED outsideJob

(***************************************************************************)
(* The job thread: tracker calls                                           *)
(***************************************************************************)
\* the job thread enters mark_task_failed / mark_task_completed
CallTracker(c, continuation) ==
    /\ job_pc' = "_update_task_status"
    /\ call' = c
    /\ after' = continuation

\* _update_task_status up to its set_cached_data
UpdateTaskStatus ==
    /\ job_pc = "_update_task_status"
    /\ progress_data' = Some(status_updated(get_progress(task_id), call.status,
                                            call.result, call.error_message))
    /\ SetStore(get_evict(Store, CACHE_NAMESPACE_PROGRESS, task_id, now))
    /\ job_pc' = "set_cached_data"
    /\ UNCHANGED <<now, url, submit_pc, call, after, result, video_ids,
                   playlist_results, completed_count, futures, seen, ops>>
    /\ UNCHANGED outsideJob

\* the set_cached_data that ends update_progress and _update_task_status
SetCachedData ==
    /\ job_pc = "set_cached_data"
    /\ SetStore(set_cached_data(Store, CACHE_NAMESPACE_PROGRESS, task_id,
                                progress_data[1], None, now))
    /\ job_pc' = after
    /\ progress_data' = None
    /\ call' = NoCall
    /\ after' = ""
    /\ UNCHANGED <<now, url, submit_pc, result, video_ids, playlist_results,
                   completed_count, futures, seen, ops>>
    /\ UNCHANGED outsideJob

(***************************************************************************)
(* The job thread: background_task_runner and the controller               *)
(***************************************************************************)
\* VideoController() in the job thread
RunnerConstruct ==
    /\ job_pc = "VideoController"
    /\ \/ /\ job_pc' = "process_video_or_playlist"
          /\ UNCHANGED <<call, after>>
       \/ CallTracker(mark_task_failed(ERR_SERVICE_INIT), "done")
    /\ UNCHANGED <<cache, cache_expiry, now, url, submit_pc, progress_data,
                   result, video_ids, playlist_results, completed_count,
                   futures, seen, ops>>
    /\ UNCHANGED outsideJob

\* process_video_or_playlist up to the branch it takes
Dispatch ==
    /\ job_pc = "process_video_or_playlist"
    /\ \/ /\ url = "bad"
          /\ CallTracker(mark_task_failed(ERR_INVALID_URL), "runner_check")
          /\ result' = Some(error_result(ERR_INVALID_URL))
       \/ /\ url = "video_noid"
          /\ CallTracker(mark_task_failed(ERR_NO_VIDEO_ID), "runner_check")
          /\ result' = Some(error_result(ERR_NO_VIDEO_ID))
       \/ /\ url = "video"
          /\ job_pc' = "process_video"
          /\ UNCHANGED <<call, after, result>>
       \/ /\ url = "playlist"
          /\ job_pc' = "get_playlist_info"
          /\ UNCHANGED <<call, after, result>>
    /\ UNCHANGED <<cache, cache_expiry, now, url, submit_pc, progress_data,
                   video_ids, playlist_results, completed_count, futures,
                   seen, ops>>
    /\ UNCHANGED outsideJob

\* process_video for a single-video job, and the handlers around it
ProcessVideo ==
    /\ job_pc = "process_video"
    /\ \E outcome \in Outcomes :
         IF outcome = "unexpected"
         THEN /\ CallTracker(mark_task_failed(ERR_UNEXPECTED), "runner_check")
              /\ result' = Some(error_result(ERR_UNEXPECTED_PROCESSING))
         ELSE /\ result' = Some(process_video("X1", outcome))
              /\ job_pc' = "runner_check"
              /\ UNCHANGED <<call, after>>
    /\ UNCHANGED <<cache, cache_expiry, now, url, submit_pc, progress_data,
                   video_ids, playlist_results, completed_count, futures,
                   seen, ops>>
    /\ UNCHANGED outsideJob

\* _process_playlist: get_playlist_info returns the ids or raises
GetPlaylistInfo ==
    /\ job_pc = "get_playlist_info"
    /\ \/ /\ \E n \in 1..MaxItems : video_ids' = [i \in 1..n |-> PlaylistId(i)]
          /\ job_pc' = "playlist_initialize"
          /\ UNCHANGED <<call, after>>
       \/ /\ CallTracker(mark_task_failed(ERR_PLAYLIST), "playlist_title")
          /\ UNCHANGED video_ids
    /\ UNCHANGED <<cache, cache_expiry, now, url, submit_pc, progress_data,
                   result, playlist_results, completed_count, futures, seen,
                   ops>>
    /\ UNCHANGED outsideJob

\* the handler's return statement reads playlist_title, which is unbound when
\* get_playlist_info raised; the error reaches process_video_or_playlist
PlaylistTitleUnbound ==
    /\ job_pc = "playlist_title"
    /\ CallTracker(mark_task_failed(ERR_UNEXPECTED), "runner_check")
    /\ result' = Some(error_result(ERR_UNEXPECTED_PROCESSING))
    /\ UNCHANGED <<cache, cache_expiry, now, url, submit_pc, progress_data,
                   video_ids, playlist_results, completed_count, futures,
                   seen, ops>>
    /\ UNCHANGED outsideJob

\* variant: one thread per item
max_workers_uncapped == Len(video_ids)

\* min(3, len(video_ids))
max_workers == IF Len(video_ids) < PoolCap THEN Len(video_ids) ELSE PoolCap

\* the job's own initialize_progress, the pre-sized slots, executor.submit
PlaylistInitialize ==
    /\ job_pc = "playlist_initialize"
    /\ SetStore(initialize_progress(Store, task_id, Len(video_ids), now))
    /\ playlist_results' = [i \in 1..Len(video_ids) |-> NullSlot]
    /\ completed_count' = 0
    /\ futures' = [i \in 1..Len(video_ids) |->
                      [state |-> "queued", outcome |-> "", video_data |-> NoVideo]]
    /\ job_pc' = "as_completed"
    /\ UNCHANGED <<now, url, submit_pc, call, after, progress_data, result,
                   video_ids, seen, ops>>
    /\ UNCHANGED outsideJob

Running == {i \in DOMAIN futures : futures[i].state = "running"}

\* a pool thread takes the next submitted item
WorkerStart ==
    /\ job_pc = "as_completed"
    /\ Cardinality(Running) < max_workers
    /\ \E i \in DOMAIN futures :
         /\ futures[i].state = "queued"
         /\ \A j \in DOMAIN futures : j < i => futures[j].state # "queued"
         /\ futures' = [futures EXCEPT ![i].state = "running"]
    /\ UNCHANGED <<cache, cache_expiry, now, url, submit_pc, job_pc, call,
                   after, progress_data, result, video_ids, playlist_results,
                   completed_count, seen, ops>>
    /\ UNCHANGED outsideJob

\* process_single_video returns
WorkerFinish ==
    /\ job_pc = "as_completed"
    /\ \E i \in Running : \E outcome \in Outcomes :
         futures' = [futures EXCEPT
                       ![i] = [state |-> "done",
                               outcome |-> outcome,
                               video_data |->
                                 process_single_video(video_ids[i], outcome)]]
    /\ UNCHANGED <<cache, cache_expiry, now, url, submit_pc, job_pc, call,
                   after, progress_data, result, video_ids, playlist_results,
                   completed_count, seen, ops>>
    /\ UNCHANGED outsideJob

\* variant: slots filled in the order of completion
SlotOf_completion_order(index) == completed_count + 1

\* the slot the fan-in loop writes for the future of item index
SlotOf(index) == index

\* one round of the fan-in loop: take a finished future, fill its slot, and
\* enter update_progress up to its set_cached_data
FanIn ==
    /\ job_pc = "as_completed"
    /\ \E index \in DOMAIN futures :
         /\ futures[index].state = "done"
         /\ LET video_data == futures[index].video_data
                got == get_progress(task_id)
            IN /\ futures' = [futures EXCEPT ![index].state = "yielded"]
               /\ playlist_results' =
                    [playlist_results EXCEPT ![SlotOf(index)] = video_data]
               /\ completed_count' = completed_count + 1
               /\ SetStore(get_evict(Store, CACHE_NAMESPACE_PROGRESS, task_id, now))
               /\ IF got = None
                  THEN UNCHANGED <<job_pc, after, progress_data>>
                  ELSE /\ progress_data' =
                            Some(updated_progress(got[1], 1,
                                   Some(Processed(completed_count + 1,
                                                  Len(video_ids))),
                                   video_data.error))
                       /\ job_pc' = "set_cached_data"
                       /\ after' = "as_completed"
    /\ UNCHANGED <<now, url, submit_pc, call, result, video_ids, seen, ops>>
    /\ UNCHANGED outsideJob

\* every future has been yielded: _process_playlist returns
FanInReturn ==
    /\ job_pc = "as_completed"
    /\ \A i \in DOMAIN futures : futures[i].state = "yielded"
    /\ result' = Some([is_playlist |-> TRUE, videos |-> playlist_results,
                       error |-> NoneStr])
    /\ job_pc' = "runner_check"
    /\ UNCHANGED <<cache, cache_expiry, now, url, submit_pc, call, after,
                   progress_data, video_ids, playlist_results, completed_count,
                   futures, seen, ops>>
    /\ UNCHANGED outsideJob

\* variant: a result with a failed item counts as a failed job
runner_verdict_item_errors(r, got) ==
    IF (r.error # NoneStr /\ r.error # "")
       \/ \E i \in DOMAIN r.videos :
            r.videos[i].error # NoneStr
    THEN IF got = None THEN "raise"
         ELSE IF got[1].status # TASK_STATUS_FAILED THEN "mark_failed"
         ELSE "nothing"
    ELSE "mark_completed"

\* the runner's verdict on what the controller returned
runner_verdict(r, got) ==
    IF r.error # NoneStr /\ r.error # ""
    THEN IF got = None THEN "raise"
         ELSE IF got[1].status # TASK_STATUS_FAILED THEN "mark_failed"
         ELSE "nothing"
    ELSE "mark_completed"

\* variant: the runner's second try has no handler for Exception
runner_except_controller_errors_only(e) ==
    IF e = "VideoControllerError"
    THEN Some(mark_task_failed(ERR_CONTROLLER))
    ELSE None

\* the handlers of the runner's second try: the tracker call the handler
\* for an exception of class e makes, or None when no handler takes it
runner_except(e) ==
    IF e = "VideoControllerError"
    THEN Some(mark_task_failed(ERR_CONTROLLER))
    ELSE Some(mark_task_failed(ERR_UNEXPECTED))

\* an exception of class e is raised inside the runner's second try; an
\* exception no handler takes ends the job thread
RunnerRaise(e) ==
    LET handler == runner_except(e)
    IN IF handler = None
       THEN /\ job_pc' = "escaped"
            /\ UNCHANGED <<call, after>>
       ELSE CallTracker(handler[1], "done")

RunnerCheck ==
    /\ job_pc = "runner_check"
    /\ LET r == result[1]
           reads == r.error # NoneStr /\ r.error # ""
           verdict == runner_verdict(r, get_progress(task_id))
       IN /\ IF reads
             THEN SetStore(get_evict(Store, CACHE_NAMESPACE_PROGRESS, task_id, now))
             ELSE UNCHANGED cacheVars
          /\ IF verdict = "mark_completed"
             THEN CallTracker(mark_task_completed(r), "log_final")
             ELSE IF verdict = "mark_failed"
             THEN CallTracker(mark_task_failed(r.error), "log_final")
             ELSE IF verdict = "raise"
             THEN RunnerRaise("AttributeError")
             ELSE /\ job_pc' = "log_final"
                  /\ UNCHANGED <<call, after>>
    /\ UNCHANGED <<now, url, submit_pc, progress_data, result, video_ids,
                   playlist_results, completed_count, futures, seen, ops>>
    /\ UNCHANGED outsideJob

\* the final log line, its condition: get_progress(task_id) is read first,
\* and a missing record gives 'unknown'
LogFinal ==
    /\ job_pc = "log_final"
    /\ SetStore(get_evict(Store, CACHE_NAMESPACE_PROGRESS, task_id, now))
    /\ job_pc' = IF get_progress(task_id) = None THEN "done" ELSE "log_final_get"
    /\ UNCHANGED <<now, url, submit_pc, call, after, progress_data, result,
                   video_ids, playlist_results, completed_count, futures,
                   seen, ops>>
    /\ UNCHANGED outsideJob

\* the final log line, its value: get_progress(task_id).get('status') reads
\* the record a second time, and None has no get
LogFinalGet ==
    /\ job_pc = "log_final_get"
    /\ SetStore(get_evict(Store, CACHE_NAMESPACE_PROGRESS, task_id, now))
    /\ IF get_progress(task_id) = None
       THEN RunnerRaise("AttributeError")
       ELSE /\ job_pc' = "done"
            /\ UNCHANGED <<call, after>>
    /\ UNCHANGED <<now, url, submit_pc, progress_data, result, video_ids,
                   playlist_results, completed_count, futures, seen, ops>>
    /\ UNCHANGED outsideJob

(***************************************************************************)
(* The client and the clock                                                *)
(***************************************************************************)
\* task_status: the client knows the task id once submit_task has returned
\* what task_status answers for what get_progress returned: a missing
\* record is answered 202 with status pending
task_status(got) ==
    IF got = None THEN [code |-> 202, status |-> TASK_STATUS_PENDING]
    ELSE [code |-> 200, status |-> got[1].status]

Poll ==
    /\ submit_pc = "done"
    /\ seen' = task_status(get_progress(task_id))
    /\ SetStore(get_evict(Store, CACHE_NAMESPACE_PROGRESS, task_id, now))
    /\ UNCHANGED <<now, url, submit_pc, ops>>
    /\ UNCHANGED jobVars
    /\ UNCHANGED outsideJob

TickSteps == {1, default_ttl}
TicksTaken(t) == (t % default_ttl) + (t \div default_ttl)

Tick ==
    /\ job_pc = "done"
    /\ submit_pc = "done"
    /\ TicksTaken(now) < MaxTicks
    /\ \E d \in TickSteps : now' = now + d
    /\ UNCHANGED <<cache, cache_expiry, url, submit_pc, seen, ops>>
    /\ UNCHANGED jobVars
    /\ UNCHANGED outsideJob

Next ==
    \/ SubmitEnqueue
    \/ SubmitInitialize
    \/ RunnerConstruct
    \/ Dispatch
    \/ ProcessVideo
    \/ GetPlaylistInfo
    \/ PlaylistTitleUnbound
    \/ PlaylistInitialize
    \/ WorkerStart
    \/ WorkerFinish
    \/ FanIn
    \/ FanInReturn
    \/ RunnerCheck
    \/ UpdateTaskStatus
    \/ SetCachedData
    \/ LogFinal
    \/ LogFinalGet
    \/ Poll
    \/ Tick

Spec == Init /\ [][Next]_vars

(***************************************************************************)
(* The runner of a single-item job under a clock that may advance at any   *)
(* point of the job (a stalled upstream call, a suspended process), so     *)
(* that the task record can expire between two reads of the job thread.    *)
(***************************************************************************)
InitRunner ==
    /\ Init
    /\ url # "playlist"

\* time.time() moves on, wherever the threads are
TickAnyTime ==
    /\ TicksTaken(now) < MaxTicks
    /\ \E d \in TickSteps : now' = now + d
    /\ UNCHANGED <<cache, cache_expiry, url, submit_pc, seen, ops>>
    /\ UNCHANGED jobVars
    /\ UNCHANGED outsideJob

NextRunner ==
    \/ SubmitEnqueue
    \/ SubmitInitialize
    \/ RunnerConstruct
    \/ Dispatch
    \/ ProcessVideo
    \/ RunnerCheck
    \/ UpdateTaskStatus
    \/ SetCachedData
    \/ LogFinal
    \/ LogFinalGet
    \/ Poll
    \/ TickAnyTime

RunnerSpec == InitRunner /\ [][NextRunner]_vars

(***************************************************************************)
(* The tracker on its own: any caller, any order of calls on one task id,  *)
(* each call run alone.  It starts where a finished job has left an empty  *)
(* cache.                                                                  *)
(***************************************************************************)
InitTracker ==
    /\ CacheCallersIdle
    /\ RetryIdle
    /\ ItemIdle
    /\ cache = EmptyDict
    /\ cache_expiry = EmptyDict
    /\ now = 0
    /\ url = "video"
    /\ submit_pc = "done"
    /\ job_pc = "done"
    /\ call = NoCall
    /\ after = ""
    /\ progress_data = None
    /\ result = None
    /\ video_ids = <<>>
    /\ playlist_results = <<>>
    /\ completed_count = 0
    /\ futures = <<>>
    /\ seen = Unpolled
    /\ ops = 0

TrackerFrame ==
    /\ ops < MaxOps
    /\ ops' = ops + 1
    /\ UNCHANGED <<now, url, submit_pc, seen>>
    /\ UNCHANGED jobVars
    /\ UNCHANGED outsideJob

TrackerInitialize ==
    /\ TrackerFrame
    /\ \E total_items \in 1..2 :
         SetStore(initialize_progress(Store, task_id, total_items, now))

TrackerUpdate ==
    /\ TrackerFrame
    /\ \E item_error \in {NoneStr, ERR_UPSTREAM} :
         SetStore(update_progress(Store, task_id, 1, Some(Processed(ops + 1, 2)),
                                  item_error, now))

TrackerMarkCompleted ==
    /\ TrackerFrame
    /\ SetStore(_update_task_status(Store, task_id, TASK_STATUS_COMPLETED,
                                    Some(process_video("X1", "ok")), NoneStr, now))

TrackerMarkFailed ==
    /\ TrackerFrame
    /\ SetStore(_update_task_status(Store, task_id, TASK_STATUS_FAILED,
                                    None, ERR_UPSTREAM, now))

TrackerCleanup ==
    /\ TrackerFrame
    /\ SetStore(cleanup_progress(Store, task_id))

NextTracker ==
    \/ TrackerInitialize
    \/ TrackerUpdate
    \/ TrackerMarkCompleted
    \/ TrackerMarkFailed
    \/ TrackerCleanup
    \/ Poll
    \/ Tick

TrackerSpec == InitTracker /\ [][NextTracker]_vars

(***************************************************************************)
(* The CacheManager on its own: its construction, then one caller making   *)
(* any calls with any arguments, each call run alone, under a clock that   *)
(* may advance between the calls.                                          *)
(***************************************************************************)
\* REDIS_URL as the deployment sets it, by the state of the server behind it
RedisUrls == {"", "redis://up", "redis://down", "redis://slow"}

\* how from_url(...).ping() ends for the server behind redis_url
ping(redis_url_) ==
    IF redis_url_ = "redis://up" THEN "PONG"
    ELSE IF redis_url_ = "redis://down" THEN "ConnectionError"
    ELSE "TimeoutError"

\* variant: only a refused connection is caught
init_except_connection_only(exc) == exc = "ConnectionError"

\* the except clause of __init__
init_except(exc) == exc \in {"ConnectionError", "TimeoutError"}

\* the namespaces, and the (namespace, key) pairs the caller uses
CacheNamespaces == {<<"a">>, <<"a", ":", "b">>}
CacheEntries == {<<<<"a">>, <<"k">>>>,
                 <<<<"a">>, <<"b", ":", "k">>>>,
                 <<<<"a", ":", "b">>, <<"k">>>>}
PyValues == {PyValue("int", 0, <<>>), PyValue("dict", 0, <<"transcript">>)}
Ttls == {None, Some(1)}

StartsWith(s, prefix) ==
    Len(prefix) <= Len(s) /\ \A i \in 1..Len(prefix) : s[i] = prefix[i]

\* the two dicts after clear_namespace
clear_namespace(st, namespace) ==
    LET keys_to_delete == {k \in DOMAIN st.c : StartsWith(k, namespace \o <<":">>)}
    IN [c |-> [k \in DOMAIN st.c \ keys_to_delete |-> st.c[k]],
        e |-> [k \in DOMAIN st.e \ keys_to_delete |-> st.e[k]]]

\* the external store: SETEX, GET, DEL and KEYS of the server, which drops
\* a key when its time to live is over
redis_live(rs, t) == {k \in DOMAIN rs.c : t < rs.e[k]}
redis_setex(rs, name, time, value, t) ==
    [c |-> Put(rs.c, name, value), e |-> Put(rs.e, name, t + time)]
redis_get(rs, name, t) ==
    IF name \in redis_live(rs, t) THEN Some(rs.c[name]) ELSE None
redis_delete(rs, names) ==
    [c |-> [k \in DOMAIN rs.c \ names |-> rs.c[k]],
     e |-> [k \in DOMAIN rs.e \ names |-> rs.e[k]]]
redis_keys(rs, prefix, t) == {k \in redis_live(rs, t) : StartsWith(k, prefix)}

outsideCache == <<url, submit_pc, seen, ops, jobVars, retryVars, itemVars>>

JobAtRest ==
    /\ url = "video"
    /\ submit_pc = "done"
    /\ job_pc = "done"
    /\ call = NoCall
    /\ after = ""
    /\ progress_data = None
    /\ result = None
    /\ video_ids = <<>>
    /\ playlist_results = <<>>
    /\ completed_count = 0
    /\ futures = <<>>
    /\ seen = Unpolled
    /\ ops = 0

InitCache ==
    /\ JobAtRest
    /\ RetryIdle
    /\ ItemIdle
    /\ cache = EmptyDict
    /\ cache_expiry = EmptyDict
    /\ now = 0
    /\ redis_url \in RedisUrls
    /\ cm_pc = "__init__"
    /\ use_redis = FALSE
    /\ redis = [c |-> EmptyDict, e |-> EmptyDict]
    /\ last = NoCacheCall
    /\ cache_calls = 0
    /\ th = [t \in CallerThreads |-> IdleThread]

\* CacheManager.__init__
CacheManagerInit ==
    /\ cm_pc = "__init__"
    /\ IF redis_url # ""
       THEN IF ping(redis_url) = "PONG"
            THEN /\ use_redis' = TRUE
                 /\ cm_pc' = "ready"
                 /\ UNCHANGED cacheVars
            ELSE IF init_except(ping(redis_url))
            THEN /\ use_redis' = FALSE
                 /\ cm_pc' = "ready"
                 /\ SetStore([c |-> EmptyDict, e |-> EmptyDict])
            ELSE /\ cm_pc' = "raised"
                 /\ UNCHANGED <<use_redis, cacheVars>>
       ELSE /\ use_redis' = FALSE
            /\ cm_pc' = "ready"
            /\ SetStore([c |-> EmptyDict, e |-> EmptyDict])
    /\ UNCHANGED <<now, redis_url, redis, last, cache_calls, th>>
    /\ UNCHANGED outsideCache

\* one more call of the caller: what it was and what it returned
CacheCall(op, namespace, key, value, ttl_seconds, returned) ==
    /\ cm_pc = "ready"
    /\ cache_calls < MaxCacheCalls
    /\ cache_calls' = cache_calls + 1
    /\ last' = [op |-> op, namespace |-> namespace, key |-> key,
                value |-> value, ttl_seconds |-> ttl_seconds, t |-> now,
                returned |-> returned]
    /\ UNCHANGED <<now, redis_url, cm_pc, use_redis, th>>
    /\ UNCHANGED outsideCache

\* set_cached_data on the backend in use
CacheSet ==
    \E entry \in CacheEntries, value \in PyValues, ttl_seconds \in Ttls :
      LET namespace == entry[1]
          key == entry[2]
      IN
      /\ CacheCall("set", namespace, key, value, ttl_seconds, None)
      /\ IF use_redis
         THEN /\ redis' = redis_setex(redis, namespaced_key(namespace, key),
                                      IF ttl_seconds # None THEN ttl_seconds[1]
                                      ELSE default_ttl,
                                      pickle_dumps(value), now)
              /\ UNCHANGED cacheVars
         ELSE /\ SetStore(set_cached_data(Store, namespace, key, value,
                                          ttl_seconds, now))
              /\ UNCHANGED redis

\* get_cached_data on the backend in use
CacheGet ==
    \E entry \in CacheEntries :
      LET namespace == entry[1]
          key == entry[2]
      IN
      IF use_redis
      THEN LET value == redis_get(redis, namespaced_key(namespace, key), now)
           IN /\ CacheCall("get", namespace, key, PyNone, None,
                           IF value # None THEN Some(pickle_loads(value[1]))
                           ELSE None)
              /\ UNCHANGED <<cacheVars, redis>>
      ELSE /\ CacheCall("get", namespace, key, PyNone, None,
                        get_cached_data(Store, namespace, key, now))
           /\ SetStore(get_evict(Store, namespace, key, now))
           /\ UNCHANGED redis

\* delete_cached_data on the backend in use
CacheDelete ==
    \E entry \in CacheEntries :
      LET namespace == entry[1]
          key == entry[2]
      IN
      /\ CacheCall("delete", namespace, key, PyNone, None, None)
      /\ IF use_redis
         THEN /\ redis' = redis_delete(redis, {namespaced_key(namespace, key)})
              /\ UNCHANGED cacheVars
         ELSE /\ SetStore(delete_cached_data(Store, namespace, key))
              /\ UNCHANGED redis

\* clear_namespace on the backend in use
CacheClearNamespace ==
    \E namespace \in CacheNamespaces :
      /\ CacheCall("clear_namespace", namespace, <<>>, PyNone, None, None)
      /\ IF use_redis
         THEN /\ redis' = redis_delete(redis,
                             redis_keys(redis, namespace \o <<":">>, now))
              /\ UNCHANGED cacheVars
         ELSE /\ SetStore(clear_namespace(Store, namespace))
              /\ UNCHANGED redis

NextCache ==
    \/ CacheManagerInit
    \/ CacheSet
    \/ CacheGet
    \/ CacheDelete
    \/ CacheClearNamespace
    \/ TickAnyTime

CacheSpec == InitCache /\ [][NextCache]_vars

(***************************************************************************)
(* The in-process backend under concurrent callers (the pool workers of a  *)
(* fan-out, the request threads).  The class takes no lock, so a call is   *)
(* a sequence of steps, one per access to a dict, and the steps of the     *)
(* threads interleave.  del d[k] and d[k] raise KeyError when k is not in  *)
(* d; d.pop(k, None) and d.get(k) do not.                                  *)
(***************************************************************************)
InitCacheThreads ==
    /\ JobAtRest
    /\ RetryIdle
    /\ ItemIdle
    /\ CacheCallersIdle
    /\ cache = EmptyDict
    /\ cache_expiry = EmptyDict
    /\ now = 0

\* thread t moves to pc, with its locals nk and keys
Goto(t, pc, nk, keys) ==
    th' = [th EXCEPT ![t] = [@ EXCEPT !.pc = pc, !.namespaced_key = nk,
                                      !.keys_to_delete = keys]]

\* the call of thread t ends
Return(t) == th' = [th EXCEPT ![t] = [IdleThread EXCEPT !.exc = th[t].exc]]

\* the call of thread t ends with an exception
Raise(t, exc) == th' = [th EXCEPT ![t] = [IdleThread EXCEPT !.exc = exc]]

ThreadFrame == UNCHANGED <<now, redis_url, cm_pc, use_redis, redis, last>>
                  /\ UNCHANGED outsideCache

\* a thread enters set, get, delete or clear_namespace
ThreadCall(t) ==
    /\ th[t].pc = "idle"
    /\ cache_calls < MaxCacheCalls
    /\ cache_calls' = cache_calls + 1
    /\ \/ \E entry \in CacheEntries, pc \in {"set_value", "get_in", "delete_cache"} :
            Goto(t, pc, namespaced_key(entry[1], entry[2]), {})
       \/ \E namespace \in CacheNamespaces :
            Goto(t, "clear_keys", namespace \o <<":">>, {})
    /\ UNCHANGED cacheVars
    /\ ThreadFrame

\* set_cached_data: self._cache[namespaced_key] = pickle.dumps(value)
SetValue(t) ==
    /\ th[t].pc = "set_value"
    /\ \E value \in PyValues :
         cache' = Put(cache, th[t].namespaced_key, pickle_dumps(value))
    /\ Goto(t, "set_expiry", th[t].namespaced_key, {})
    /\ UNCHANGED <<cache_expiry, cache_calls>>
    /\ ThreadFrame

\* set_cached_data: self._cache_expiry[namespaced_key] = time.time() + actual_ttl
SetExpiry(t) ==
    /\ th[t].pc = "set_expiry"
    /\ \E ttl_seconds \in Ttls :
         cache_expiry' = Put(cache_expiry, th[t].namespaced_key,
                             now + (IF ttl_seconds # None THEN ttl_seconds[1]
                                    ELSE default_ttl))
    /\ Return(t)
    /\ UNCHANGED <<cache, cache_calls>>
    /\ ThreadFrame

\* get_cached_data: namespaced_key in self._cache_expiry
GetIn(t) ==
    /\ th[t].pc = "get_in"
    /\ Goto(t, IF th[t].namespaced_key \in DOMAIN cache_expiry
               THEN "get_compare" ELSE "get_value",
            th[t].namespaced_key, {})
    /\ UNCHANGED <<cacheVars, cache_calls>>
    /\ ThreadFrame

\* get_cached_data: time.time() > self._cache_expiry[namespaced_key]
GetCompare(t) ==
    /\ th[t].pc = "get_compare"
    /\ IF th[t].namespaced_key \notin DOMAIN cache_expiry
       THEN Raise(t, "KeyError")
       ELSE Goto(t, IF now > cache_expiry[th[t].namespaced_key]
                    THEN "get_del_cache" ELSE "get_value",
                 th[t].namespaced_key, {})
    /\ UNCHANGED <<cacheVars, cache_calls>>
    /\ ThreadFrame

\* get_cached_data: del self._cache[namespaced_key]
GetDelCache(t) ==
    /\ th[t].pc = "get_del_cache"
    /\ IF th[t].namespaced_key \notin DOMAIN cache
       THEN Raise(t, "KeyError") /\ UNCHANGED cache
       ELSE /\ cache' = Drop(cache, th[t].namespaced_key)
            /\ Goto(t, "get_del_expiry", th[t].namespaced_key, {})
    /\ UNCHANGED <<cache_expiry, cache_calls>>
    /\ ThreadFrame

\* get_cached_data: del self._cache_expiry[namespaced_key]; return None
GetDelExpiry(t) ==
    /\ th[t].pc = "get_del_expiry"
    /\ IF th[t].namespaced_key \notin DOMAIN cache_expiry
       THEN Raise(t, "KeyError") /\ UNCHANGED cache_expiry
       ELSE /\ cache_expiry' = Drop(cache_expiry, th[t].namespaced_key)
            /\ Return(t)
    /\ UNCHANGED <<cache, cache_calls>>
    /\ ThreadFrame

\* get_cached_data: value = self._cache.get(namespaced_key), and the return
GetValue(t) ==
    /\ th[t].pc = "get_value"
    /\ Return(t)
    /\ UNCHANGED <<cacheVars, cache_calls>>
    /\ ThreadFrame

\* delete_cached_data: self._cache.pop(namespaced_key, None)
DeleteCache(t) ==
    /\ th[t].pc = "delete_cache"
    /\ cache' = Drop(cache, th[t].namespaced_key)
    /\ Goto(t, "delete_expiry", th[t].namespaced_key, {})
    /\ UNCHANGED <<cache_expiry, cache_calls>>
    /\ ThreadFrame

\* delete_cached_data: self._cache_expiry.pop(namespaced_key, None)
DeleteExpiry(t) ==
    /\ th[t].pc = "delete_expiry"
    /\ cache_expiry' = Drop(cache_expiry, th[t].namespaced_key)
    /\ Return(t)
    /\ UNCHANGED <<cache, cache_calls>>
    /\ ThreadFrame

\* the for loop of clear_namespace takes its next k, or the call returns
ForNext(t, keys) ==
    IF keys = {} THEN Return(t)
    ELSE \E k \in keys : Goto(t, "clear_del_cache", k, keys \ {k})

\* clear_namespace: keys_to_delete = [k for k in self._cache if ...]; on
\* entry th[t].namespaced_key holds the prefix
ClearKeys(t) ==
    /\ th[t].pc = "clear_keys"
    /\ ForNext(t, {k \in DOMAIN cache : StartsWith(k, th[t].namespaced_key)})
    /\ UNCHANGED <<cacheVars, cache_calls>>
    /\ ThreadFrame

\* clear_namespace: del self._cache[k]
ClearDelCache(t) ==
    /\ th[t].pc = "clear_del_cache"
    /\ IF th[t].namespaced_key \notin DOMAIN cache
       THEN Raise(t, "KeyError") /\ UNCHANGED cache
       ELSE /\ cache' = Drop(cache, th[t].namespaced_key)
            /\ Goto(t, "clear_del_expiry", th[t].namespaced_key,
                    th[t].keys_to_delete)
    /\ UNCHANGED <<cache_expiry, cache_calls>>
    /\ ThreadFrame

\* clear_namespace: del self._cache_expiry[k]
ClearDelExpiry(t) ==
    /\ th[t].pc = "clear_del_expiry"
    /\ IF th[t].namespaced_key \notin DOMAIN cache_expiry
       THEN Raise(t, "KeyError") /\ UNCHANGED cache_expiry
       ELSE /\ cache_expiry' = Drop(cache_expiry, th[t].namespaced_key)
            /\ ForNext(t, th[t].keys_to_delete)
    /\ UNCHANGED <<cache, cache_calls>>
    /\ ThreadFrame

NextCacheThreads ==
    \/ \E t \in CallerThreads : ThreadCall(t)
    \/ \E t \in CallerThreads : SetValue(t)
    \/ \E t \in CallerThreads : SetExpiry(t)
    \/ \E t \in CallerThreads : GetIn(t)
    \/ \E t \in CallerThreads : GetCompare(t)
    \/ \E t \in CallerThreads : GetDelCache(t)
    \/ \E t \in CallerThreads : GetDelExpiry(t)
    \/ \E t \in CallerThreads : GetValue(t)
    \/ \E t \in CallerThreads : DeleteCache(t)
    \/ \E t \in CallerThreads : DeleteExpiry(t)
    \/ \E t \in CallerThreads : ClearKeys(t)
    \/ \E t \in CallerThreads : ClearDelCache(t)
    \/ \E t \in CallerThreads : ClearDelExpiry(t)
    \/ TickAnyTime

CacheThreadsSpec == InitCacheThreads /\ [][NextCacheThreads]_vars

(***************************************************************************)
(* One call of VideoModel._retry_with_backoff(func, max_retries,           *)
(* base_delay, errors_to_retry).  func is given by how each of its calls   *)
(* ends: "ok" (it returns) or the class of the exception it raises.  An    *)
(* exception is the pair of its class and the call that raised it, so that *)
(* re-raising it and raising another one differ.                           *)
(***************************************************************************)
RETRY_BASE_DELAY == 1
ErrorClasses == {"ConnectionError", "ValueError"}
RetryTuples == {{"Exception"}, {"ConnectionError"}}
Jitter == {0, 1}     \* random.uniform(0, 1), its two ends

outsideRetry == <<cache, cache_expiry, now, url, submit_pc, seen, ops,
                  jobVars, cacheCallVars, itemVars>>

InitRetry ==
    /\ JobAtRest
    /\ CacheCallersIdle
    /\ ItemIdle
    /\ cache = EmptyDict
    /\ cache_expiry = EmptyDict
    /\ now = 0
    /\ max_retries \in 1..MaxRetries
    /\ func \in [1..MaxRetries -> {"ok"} \cup ErrorClasses]
    /\ errors_to_retry \in RetryTuples
    /\ attempt = 0
    /\ retry_pc = "for"
    /\ func_calls = 0
    /\ slept = <<>>
    /\ retry_out = NotRun

\* variant: the loop makes one attempt fewer
in_range_one_short(attempt_, max_retries_) == attempt_ < max_retries_ - 1

\* for attempt in range(max_retries)
in_range(attempt_, max_retries_) == attempt_ < max_retries_

\* variant: a bare except
caught_always(e, errors) == TRUE

\* except errors_to_retry as e: e is an instance of a class of the tuple
caught(e, errors) == "Exception" \in errors \/ e \in errors

\* variant: the last attempt is taken for one more
is_final_off_by_one(attempt_, max_retries_) == attempt_ = max_retries_

\* if attempt == max_retries - 1
is_final(attempt_, max_retries_) == attempt_ = max_retries_ - 1

delay(base_delay, attempt_, jitter) == base_delay * (2 ^ attempt_) + jitter

\* the head of the for loop; a loop that runs out returns None
RetryFor ==
    /\ retry_pc = "for"
    /\ IF in_range(attempt, max_retries)
       THEN /\ retry_pc' = "try"
            /\ UNCHANGED retry_out
       ELSE /\ retry_pc' = "done"
            /\ retry_out' = [kind |-> "returned", value |-> "None", call |-> 0]
    /\ UNCHANGED <<func, max_retries, errors_to_retry, attempt, func_calls, slept>>
    /\ UNCHANGED outsideRetry

\* return func(), and the except clause
RetryTry ==
    /\ retry_pc = "try"
    /\ func_calls' = func_calls + 1
    /\ LET e == func[func_calls + 1]
       IN IF e = "ok"
          THEN /\ retry_pc' = "done"
               /\ retry_out' = [kind |-> "returned", value |-> "ok",
                                call |-> func_calls + 1]
          ELSE IF ~caught(e, errors_to_retry) \/ is_final(attempt, max_retries)
          THEN /\ retry_pc' = "done"
               /\ retry_out' = [kind |-> "raised", value |-> e,
                                call |-> func_calls + 1]
          ELSE /\ retry_pc' = "sleep"
               /\ UNCHANGED retry_out
    /\ UNCHANGED <<func, max_retries, errors_to_retry, attempt, slept>>
    /\ UNCHANGED outsideRetry

\* time.sleep(delay), and the next round of the loop
RetrySleep ==
    /\ retry_pc = "sleep"
    /\ \E jitter \in Jitter :
         slept' = Append(slept, delay(RETRY_BASE_DELAY, attempt, jitter))
    /\ attempt' = attempt + 1
    /\ retry_pc' = "for"
    /\ UNCHANGED <<func, max_retries, errors_to_retry, func_calls, retry_out>>
    /\ UNCHANGED outsideRetry

NextRetry ==
    \/ RetryFor
    \/ RetryTry
    \/ RetrySleep

RetrySpec == InitRetry /\ [][NextRetry]_vars

(***************************************************************************)
(* VideoModel: the credentials and summarize_text (models/video_model.py). *)
(* generate_content ends by the credential the model was configured with:  *)
(* it returns, it raises ResourceExhausted, or it raises something else.   *)
(* genai.configure or GenerativeModel may raise, and _configure_gemini_api *)
(* then leaves self.model None.  The statement that advances the index     *)
(* reads it and stores it in two steps.  summarize_text is called with a   *)
(* nonempty text only (the caller tests it), so its first check is not     *)
(* modelled.                                                               *)
(***************************************************************************)
KeyOutcomes == {"ok", "rate_limited", "error"}

ERR_MODEL_NOT_INITIALIZED == "Gemini model not initialized for summarization."
ERR_KEYS_EXHAUSTED == "All available API keys have been exhausted."
ERR_UNEXPECTED_API == "Failed to generate summary due to an unexpected API error"
ERR_AFTER_ALL_KEYS == "Failed to generate summary after trying all API keys."

outsideSummarize == <<cache, cache_expiry, now, url, submit_pc, seen, ops,
                      jobVars, cacheCallVars, retryVars, fetchVars, pureVars,
                      controllerVars>>

InitSummarize ==
    /\ JobAtRest
    /\ CacheCallersIdle
    /\ RetryIdle
    /\ FetchIdle
    /\ PureIdle
    /\ ControllerIdle
    /\ cache = EmptyDict
    /\ cache_expiry = EmptyDict
    /\ now = 0
    /\ \E n \in 1..MaxKeys : api_keys \in [1..n -> KeyOutcomes]
    /\ current_api_key_index = 0
    /\ model \in {Some(0), None}
    /\ sz = [w \in Summarizers |-> IdleSummarizer]
    /\ rotated = <<0>>
    /\ summarize_calls = 0

\* variant: the index stops at the last credential
next_api_key_index_no_wrap(index, n) == IF index + 1 < n THEN index + 1 ELSE index

\* the index _get_next_api_key stores
next_api_key_index(index, n) == (index + 1) % n

\* variant: the test for the last credential is one late
is_last_key_one_late(i, n) == i = n

\* i == len(self.api_keys) - 1
is_last_key(i, n) == i = n - 1

\* self.model.generate_content for a model configured with credential k
generate_content(k) == api_keys[k + 1]

Returned(value) == [kind |-> "returned", value |-> value]
Raised(value) == [kind |-> "raised", value |-> value]

\* the call of thread w ends with out
SummarizeEnd(w, attempts, out) ==
    sz' = [sz EXCEPT ![w] = [pc |-> "idle", i |-> sz[w].i, index |-> sz[w].index,
                             attempts |-> attempts, out |-> out]]

\* summarize_text up to its loop: a model that is None is configured again
SummarizeCall(w) ==
    /\ sz[w].pc = "idle"
    /\ summarize_calls < MaxSummarizeCalls
    /\ summarize_calls' = summarize_calls + 1
    /\ \E configured \in BOOLEAN :
         /\ model' = IF model # None THEN model
                     ELSE IF configured THEN Some(current_api_key_index)
                     ELSE None
         /\ model # None => configured
         /\ IF model' = None
            THEN SummarizeEnd(w, <<>>, Raised(ERR_MODEL_NOT_INITIALIZED))
            ELSE sz' = [sz EXCEPT ![w] = [pc |-> "generate", i |-> 0,
                                          index |-> 0, attempts |-> <<>>,
                                          out |-> NoOutcome]]
    /\ UNCHANGED <<api_keys, current_api_key_index, rotated>>
    /\ UNCHANGED outsideSummarize

\* generate() inside the loop, and the two except clauses up to the rotation
Generate(w) ==
    /\ sz[w].pc = "generate"
    /\ LET attempts == Append(sz[w].attempts, model)
       IN IF model = None
          THEN SummarizeEnd(w, attempts, Raised(ERR_UNEXPECTED_API))
          ELSE IF generate_content(model[1]) = "ok"
          THEN SummarizeEnd(w, attempts, Returned("summary"))
          ELSE IF generate_content(model[1]) = "rate_limited"
          THEN sz' = [sz EXCEPT ![w].pc = "_get_next_api_key",
                                ![w].attempts = attempts]
          ELSE SummarizeEnd(w, attempts, Raised(ERR_UNEXPECTED_API))
    /\ UNCHANGED <<api_keys, current_api_key_index, model, rotated,
                   summarize_calls>>
    /\ UNCHANGED outsideSummarize

\* _get_next_api_key, the right-hand side: the index is read
GetNextApiKeyLoad(w) ==
    /\ sz[w].pc = "_get_next_api_key"
    /\ sz' = [sz EXCEPT ![w].pc = "store_index",
                        ![w].index = current_api_key_index]
    /\ UNCHANGED <<api_keys, current_api_key_index, model, rotated,
                   summarize_calls>>
    /\ UNCHANGED outsideSummarize

\* _get_next_api_key, the assignment: the index is stored
GetNextApiKeyStore(w) ==
    /\ sz[w].pc = "store_index"
    /\ current_api_key_index' = next_api_key_index(sz[w].index, Len(api_keys))
    /\ rotated' = Append(rotated, current_api_key_index')
    /\ sz' = [sz EXCEPT ![w].pc = "_configure_gemini_api"]
    /\ UNCHANGED <<api_keys, model, summarize_calls>>
    /\ UNCHANGED outsideSummarize

\* _configure_gemini_api in the except clause, the test for the last
\* credential, and the step of the loop
ConfigureGeminiApi(w) ==
    /\ sz[w].pc = "_configure_gemini_api"
    /\ \E configured \in BOOLEAN :
         model' = IF configured THEN Some(current_api_key_index) ELSE None
    /\ IF is_last_key(sz[w].i, Len(api_keys))
       THEN SummarizeEnd(w, sz[w].attempts, Raised(ERR_KEYS_EXHAUSTED))
       ELSE IF sz[w].i + 1 < Len(api_keys)
       THEN sz' = [sz EXCEPT ![w].pc = "generate", ![w].i = sz[w].i + 1]
       ELSE SummarizeEnd(w, sz[w].attempts, Raised(ERR_AFTER_ALL_KEYS))
    /\ UNCHANGED <<api_keys, current_api_key_index, rotated, summarize_calls>>
    /\ UNCHANGED outsideSummarize

NextSummarize ==
    \/ SummarizeCall("W1")
    \/ Generate("W1")
    \/ GetNextApiKeyLoad("W1")
    \/ GetNextApiKeyStore("W1")
    \/ ConfigureGeminiApi("W1")

SummarizeSpec == InitSummarize /\ [][NextSummarize]_vars

(***************************************************************************)
(* The fan-out workers of one playlist job call summarize_text on the one  *)
(* VideoModel of the controller (controllers/video_controller.py,          *)
(* executor.submit(self.process_single_video, ...)): two pool threads,     *)
(* whose steps interleave at every read and write of the shared            *)
(* current_api_key_index and model.                                        *)
(***************************************************************************)
NextSummarizeWorkers ==
    \E w \in Summarizers :
       \/ SummarizeCall(w)
       \/ Generate(w)
       \/ GetNextApiKeyLoad(w)
       \/ GetNextApiKeyStore(w)
       \/ ConfigureGeminiApi(w)

SummarizeWorkersSpec == InitSummarize /\ [][NextSummarizeWorkers]_vars

(***************************************************************************)
(* VideoModel.fetch_transcript_with_info (models/video_model.py): the      *)
(* cached artifact, metadata and slice of one video id, the artifact       *)
(* upstream behind _retry_with_backoff, and the metadata upstream on a     *)
(* daemon thread of its own.  A Python str is the sequence of its pieces,  *)
(* so that formatting and joining are \o.  start_time, end_time and the    *)
(* start of an entry are floats: a time is held as its number of tenths of *)
(* a second, so that int() of a time is the division by ten that drops the *)
(* fraction.  A call lasts seconds and the shortest TTL is five minutes,   *)
(* so the clock advances between the calls.                                *)
(***************************************************************************)
CACHE_NAMESPACE_TRANSCRIPTS == <<"transcripts">>
CACHE_TTL_TRANSCRIPT == 30 * 24 * 3600
CACHE_TTL_VIDEO_INFO == 3600 * 24
CACHE_TTL_VIDEO_INFO_FALLBACK == 300
TRANSCRIPT_SLICE_TTL_SECONDS == 86400

video_id == "X1"

\* what the artifact upstream holds for the id, and the metadata upstream
Entry(text, start) == [text |-> text, start |-> start]
Artifact == <<Entry("hello", 0), Entry("world", 50)>>
VideoInfo(id, title, url_, duration) ==
    PyValue("dict", 0, <<[id |-> id, title |-> title, url |-> url_,
                          duration |-> duration]>>)
OEmbedInfo == VideoInfo(video_id, <<"A title">>,
                        <<"https://www.youtube.com/watch?v=", video_id>>, 0)

\* the record substituted when the metadata fetch gave nothing
FallbackInfo(id) == VideoInfo(id, <<"Video ", id>>,
                              <<"https://www.youtube.com/watch?v=", id>>, 0)

\* the windows the calls are made with: none, both ends (5.0 to 10.0), one
\* end (up to 4.0), and a window that holds no entry (5.5 to 10.0)
Windows == {<<None, None>>, <<Some(50), Some(100)>>, <<None, Some(40)>>,
            <<Some(55), Some(100)>>}

\* int() of a time that is not negative
start_key(time) == time \div 10

\* str() of a natural number
Digits == <<"0", "1", "2", "3", "4", "5", "6", "7", "8", "9">>
RECURSIVE str(_)
str(n) == IF n < 10 THEN <<Digits[n + 1]>>
          ELSE str(n \div 10) \o <<Digits[(n % 10) + 1]>>

\* the truth value of what get_cached_data returned
Truthy(got) == got # None /\ (got[1].n # 0 \/ got[1].items # <<>>)

transcript_cache_key(id) == <<id>>
info_cache_key(id) == <<"info_", id>>

\* slice_key, the empty sequence when no window was given
slice_key(id, start_time, end_time) ==
    IF start_time # None \/ end_time # None
    THEN <<"slice_", id, "_">>
         \o (IF start_time # None THEN str(start_key(start_time[1]))
             ELSE <<"None">>)
         \o <<"_">>
         \o (IF end_time # None THEN str(start_key(end_time[1]))
             ELSE <<"None">>)
    ELSE <<>>

\* " ".join(parts)
RECURSIVE join(_, _)
join(sep, parts) ==
    IF parts = <<>> THEN <<>>
    ELSE IF Len(parts) = 1 THEN <<parts[1]>>
    ELSE <<parts[1], sep>> \o join(sep, Tail(parts))

\* variant: an entry that starts exactly at a bound of the window is left out
in_window_exclusive(start, start_time, end_time) ==
    /\ start_time = None \/ start > start_time[1]
    /\ end_time = None \/ start < end_time[1]

\* the condition of the list comprehension
in_window(start, start_time, end_time) ==
    /\ start_time = None \/ start >= start_time[1]
    /\ end_time = None \/ start <= end_time[1]

RECURSIVE filtered_entries(_, _, _)
filtered_entries(entries, start_time, end_time) ==
    IF entries = <<>> THEN <<>>
    ELSE (IF in_window(entries[1].start, start_time, end_time)
          THEN <<entries[1].text>> ELSE <<>>)
         \o filtered_entries(Tail(entries), start_time, end_time)

\* _filter_transcript_by_time: the str it returns
_filter_transcript_by_time(transcript_data, start_time, end_time) ==
    IF ~Truthy(transcript_data) THEN <<>>
    ELSE IF transcript_data[1].type = "str" THEN transcript_data[1].items
    ELSE join(" ", filtered_entries(transcript_data[1].items,
                                    start_time, end_time))

outsideFetch == <<now, url, submit_pc, seen, ops, jobVars, cacheCallVars,
                  retryVars, summarizeVars, pureVars, controllerVars>>

InitFetch ==
    /\ JobAtRest
    /\ CacheCallersIdle
    /\ RetryIdle
    /\ SummarizeIdle
    /\ FetchIdle
    /\ PureIdle
    /\ ControllerIdle
    /\ cache = EmptyDict
    /\ cache_expiry = EmptyDict
    /\ now = 0

NoThread == [pc |-> "not_started", value |-> None, failed |-> FALSE]

\* call k has returned or raised
FetchEnded(k) == k < fetch_calls \/ (k = fetch_calls /\ fetch.pc = "idle")

\* an upstream call or a cache write made for call k by its main thread or
\* by its metadata thread
Event(k, by, op, key, ttl) ==
    [call |-> k, by |-> by, op |-> op, key |-> key, ttl |-> ttl,
     ended |-> FetchEnded(k)]

Log(event) == events' = events \cup {event}

FetchReturned(text, info) ==
    [kind |-> "returned", text |-> text, info |-> info, error |-> NoneStr]
FetchRaised(error) ==
    [kind |-> "raised", text |-> <<>>, info |-> None, error |-> error]

GetTranscripts(key) ==
    get_cached_data(Store, CACHE_NAMESPACE_TRANSCRIPTS, key, now)
EvictTranscripts(key) ==
    SetStore(get_evict(Store, CACHE_NAMESPACE_TRANSCRIPTS, key, now))
SetTranscripts(key, value, ttl) ==
    SetStore(set_cached_data(Store, CACHE_NAMESPACE_TRANSCRIPTS, key, value,
                             Some(ttl), now))

\* variant: the first return is never taken
cache_hit_never(cached_slice, cached_info) == FALSE

\* if cached_slice and cached_info
cache_hit(cached_slice, cached_info) ==
    Truthy(cached_slice) /\ Truthy(cached_info)

\* variant: no record is substituted
needs_fallback_never(video_info) == FALSE

\* if not video_info, after the join
needs_fallback(video_info) == ~Truthy(video_info)

\* the call starts: its arguments
FetchCall ==
    /\ fetch.pc = "idle"
    /\ fetch_calls < MaxFetchCalls
    /\ \E w \in Windows :
         fetch' = [IdleFetch EXCEPT !.pc = "get_transcript",
                                    !.start_time = w[1],
                                    !.end_time = w[2]]
    /\ fetch_calls' = fetch_calls + 1
    /\ info_threads' = Append(info_threads, NoThread)
    /\ UNCHANGED <<cache, cache_expiry, events>>
    /\ UNCHANGED outsideFetch

\* cached_transcript = get_cached_data(...)
FetchGetTranscript ==
    /\ fetch.pc = "get_transcript"
    /\ fetch' = [fetch EXCEPT
                   !.pc = "get_info",
                   !.cached_transcript =
                       GetTranscripts(transcript_cache_key(video_id))]
    /\ EvictTranscripts(transcript_cache_key(video_id))
    /\ UNCHANGED <<info_threads, fetch_calls, events>>
    /\ UNCHANGED outsideFetch

\* cached_info = get_cached_data(...)
FetchGetInfo ==
    /\ fetch.pc = "get_info"
    /\ fetch' = [fetch EXCEPT
                   !.pc = "get_slice",
                   !.cached_info = GetTranscripts(info_cache_key(video_id))]
    /\ EvictTranscripts(info_cache_key(video_id))
    /\ UNCHANGED <<info_threads, fetch_calls, events>>
    /\ UNCHANGED outsideFetch

\* cached_slice = get_cached_data(...) if slice_key else None, then the two
\* returns from the cache, and otherwise the start of the metadata thread
FetchGetSlice ==
    /\ fetch.pc = "get_slice"
    /\ LET key == slice_key(video_id, fetch.start_time, fetch.end_time)
           cached_slice == IF key # <<>> THEN GetTranscripts(key) ELSE None
           filtered_transcript ==
               _filter_transcript_by_time(fetch.cached_transcript,
                                          fetch.start_time, fetch.end_time)
       IN /\ IF key # <<>> THEN EvictTranscripts(key)
             ELSE UNCHANGED <<cache, cache_expiry>>
          /\ IF cache_hit(cached_slice, fetch.cached_info)
             THEN /\ fetch' = [fetch EXCEPT
                                 !.pc = "idle",
                                 !.cached_slice = cached_slice,
                                 !.out = FetchReturned(cached_slice[1].items,
                                                       fetch.cached_info)]
                  /\ UNCHANGED info_threads
             ELSE IF Truthy(fetch.cached_transcript) /\ Truthy(fetch.cached_info)
             THEN /\ fetch' = [fetch EXCEPT
                                 !.pc = IF key # <<>> /\ filtered_transcript # <<>>
                                        THEN "set_slice_of_cached"
                                        ELSE "idle",
                                 !.cached_slice = cached_slice,
                                 !.filtered_transcript = filtered_transcript,
                                 !.out = IF key # <<>> /\ filtered_transcript # <<>>
                                         THEN NoFetchOut
                                         ELSE FetchReturned(filtered_transcript,
                                                            fetch.cached_info)]
                  /\ UNCHANGED info_threads
             ELSE /\ fetch' = [fetch EXCEPT
                                 !.pc = IF ~Truthy(fetch.cached_transcript)
                                        THEN "fetch_transcript" ELSE "join",
                                 !.cached_slice = cached_slice,
                                 !.transcript_data = fetch.cached_transcript,
                                 !.video_info = fetch.cached_info]
                  /\ info_threads' =
                       IF ~Truthy(fetch.cached_info)
                       THEN [info_threads EXCEPT
                               ![fetch_calls] = [pc |-> "get_video_info",
                                                 value |-> fetch.cached_info,
                                                 failed |-> FALSE]]
                       ELSE info_threads
    /\ UNCHANGED <<fetch_calls, events>>
    /\ UNCHANGED outsideFetch

\* variant: the call returns the slice of a cached artifact without
\* writing it
FetchSetSliceOfCached_not_written ==
    /\ fetch.pc = "set_slice_of_cached"
    /\ fetch' = [fetch EXCEPT
                   !.pc = "idle",
                   !.out = FetchReturned(fetch.filtered_transcript,
                                         fetch.cached_info)]
    /\ UNCHANGED <<cache, cache_expiry, info_threads, fetch_calls, events>>
    /\ UNCHANGED outsideFetch

\* the slice of a cached artifact is written, and the call returns
FetchSetSliceOfCached ==
    /\ fetch.pc = "set_slice_of_cached"
    /\ LET key == slice_key(video_id, fetch.start_time, fetch.end_time)
       IN /\ SetTranscripts(key, PyValue("str", 0, fetch.filtered_transcript),
                            TRANSCRIPT_SLICE_TTL_SECONDS)
          /\ Log(Event(fetch_calls, "main", "set_cached_data", key,
                                    TRANSCRIPT_SLICE_TTL_SECONDS))
    /\ fetch' = [fetch EXCEPT
                   !.pc = "idle",
                   !.out = FetchReturned(fetch.filtered_transcript,
                                         fetch.cached_info)]
    /\ UNCHANGED <<info_threads, fetch_calls>>
    /\ UNCHANGED outsideFetch

\* variant: what the upstream gave is cached before it is tested, so that a
\* failed fetch leaves an empty artifact in the cache
FetchTranscript_caches_before_test ==
    /\ fetch.pc = "fetch_transcript"
    /\ \E USE_YOUTUBE_TRANSCRIPT_API \in BOOLEAN :
       \E outcome \in {"data", "no_data", "raises"} :
         LET transcript_data ==
                 IF USE_YOUTUBE_TRANSCRIPT_API /\ outcome = "data"
                 THEN Some(PyValue("list", 0, Artifact))
                 ELSE None
         IN IF ~Truthy(transcript_data)
            THEN /\ fetch' = [fetch EXCEPT !.pc = "idle",
                                           !.out = FetchRaised(ERR_UPSTREAM)]
                 /\ SetTranscripts(transcript_cache_key(video_id),
                                   PyValue("list", 0, <<>>),
                                   CACHE_TTL_TRANSCRIPT)
                 /\ Log(Event(fetch_calls, "main", "set_cached_data",
                              transcript_cache_key(video_id),
                              CACHE_TTL_TRANSCRIPT))
            ELSE /\ fetch' = [fetch EXCEPT !.pc = "set_transcript",
                                           !.transcript_data = transcript_data]
                 /\ Log(Event(fetch_calls, "main",
                              "_fetch_transcript_from_api", <<>>, 0))
                 /\ UNCHANGED <<cache, cache_expiry>>
    /\ UNCHANGED <<info_threads, fetch_calls>>
    /\ UNCHANGED outsideFetch

\* the artifact upstream behind _retry_with_backoff, when the configuration
\* allows it: it gives the entries, gives nothing, or fails on every
\* attempt; without an artifact the call raises
FetchTranscript ==
    /\ fetch.pc = "fetch_transcript"
    /\ \E USE_YOUTUBE_TRANSCRIPT_API \in BOOLEAN :
       \E outcome \in {"data", "no_data", "raises"} :
         LET transcript_data ==
                 IF USE_YOUTUBE_TRANSCRIPT_API /\ outcome = "data"
                 THEN Some(PyValue("list", 0, Artifact))
                 ELSE None
         IN /\ IF USE_YOUTUBE_TRANSCRIPT_API
               THEN Log(Event(fetch_calls, "main",
                              "_fetch_transcript_from_api", <<>>, 0))
               ELSE UNCHANGED events
            /\ IF ~Truthy(transcript_data)
               THEN fetch' = [fetch EXCEPT !.pc = "idle",
                                           !.out = FetchRaised(ERR_UPSTREAM)]
               ELSE fetch' = [fetch EXCEPT !.pc = "set_transcript",
                                           !.transcript_data = transcript_data]
    /\ UNCHANGED <<cache, cache_expiry, info_threads, fetch_calls>>
    /\ UNCHANGED outsideFetch

\* the fetched artifact is written to the cache
FetchSetTranscript ==
    /\ fetch.pc = "set_transcript"
    /\ SetTranscripts(transcript_cache_key(video_id), fetch.transcript_data[1],
                      CACHE_TTL_TRANSCRIPT)
    /\ Log(Event(fetch_calls, "main", "set_cached_data",
                              transcript_cache_key(video_id),
                              CACHE_TTL_TRANSCRIPT))
    /\ fetch' = [fetch EXCEPT !.pc = "join"]
    /\ UNCHANGED <<info_threads, fetch_calls>>
    /\ UNCHANGED outsideFetch

\* info_thread.join() when a thread was started, and what it left
FetchJoin ==
    /\ fetch.pc = "join"
    /\ LET info_thread == info_threads[fetch_calls]
           video_info == IF info_thread.pc = "not_started"
                         THEN fetch.video_info
                         ELSE info_thread.value
       IN /\ info_thread.pc \in {"not_started", "finished"}
          /\ IF info_thread.pc # "not_started" /\ needs_fallback(video_info)
             THEN fetch' = [fetch EXCEPT
                              !.pc = "set_fallback_info",
                              !.video_info = Some(FallbackInfo(video_id))]
             ELSE fetch' = [fetch EXCEPT !.pc = "filter",
                                         !.video_info = video_info]
    /\ UNCHANGED <<cache, cache_expiry, info_threads, fetch_calls, events>>
    /\ UNCHANGED outsideFetch

\* the substituted record is cached briefly
FetchSetFallbackInfo ==
    /\ fetch.pc = "set_fallback_info"
    /\ SetTranscripts(info_cache_key(video_id), fetch.video_info[1],
                      CACHE_TTL_VIDEO_INFO_FALLBACK)
    /\ Log(Event(fetch_calls, "main", "set_cached_data",
                              info_cache_key(video_id),
                              CACHE_TTL_VIDEO_INFO_FALLBACK))
    /\ fetch' = [fetch EXCEPT !.pc = "filter"]
    /\ UNCHANGED <<info_threads, fetch_calls>>
    /\ UNCHANGED outsideFetch

\* the artifact is filtered; without a slice to cache the call returns
FetchFilter ==
    /\ fetch.pc = "filter"
    /\ LET key == slice_key(video_id, fetch.start_time, fetch.end_time)
           filtered_transcript ==
               _filter_transcript_by_time(fetch.transcript_data,
                                          fetch.start_time, fetch.end_time)
       IN IF key # <<>> /\ filtered_transcript # <<>>
          THEN fetch' = [fetch EXCEPT
                           !.pc = "set_slice",
                           !.filtered_transcript = filtered_transcript]
          ELSE fetch' = [fetch EXCEPT
                           !.pc = "idle",
                           !.filtered_transcript = filtered_transcript,
                           !.out = FetchReturned(filtered_transcript,
                                                 fetch.video_info)]
    /\ UNCHANGED <<cache, cache_expiry, info_threads, fetch_calls, events>>
    /\ UNCHANGED outsideFetch

\* the slice is written, and the call returns
FetchSetSlice ==
    /\ fetch.pc = "set_slice"
    /\ LET key == slice_key(video_id, fetch.start_time, fetch.end_time)
       IN /\ SetTranscripts(key, PyValue("str", 0, fetch.filtered_transcript),
                            TRANSCRIPT_SLICE_TTL_SECONDS)
          /\ Log(Event(fetch_calls, "main", "set_cached_data", key,
                                    TRANSCRIPT_SLICE_TTL_SECONDS))
    /\ fetch' = [fetch EXCEPT
                   !.pc = "idle",
                   !.out = FetchReturned(fetch.filtered_transcript,
                                         fetch.video_info)]
    /\ UNCHANGED <<info_threads, fetch_calls>>
    /\ UNCHANGED outsideFetch

\* _fetch_info on the thread of call k: get_video_info returns the record
\* or raises, and the except clause of the thread swallows what it raises
InfoGetVideoInfo(k) ==
    /\ info_threads[k].pc = "get_video_info"
    /\ \E outcome \in {"info", "raises"} :
         info_threads' =
             [info_threads EXCEPT
                ![k] = IF outcome = "info"
                       THEN [pc |-> "set_cached_data",
                             value |-> Some(OEmbedInfo),
                             failed |-> FALSE]
                       ELSE [pc |-> "finished",
                             value |-> info_threads[k].value,
                             failed |-> TRUE]]
    /\ Log(Event(k, "info", "get_video_info", <<>>, 0))
    /\ UNCHANGED <<cache, cache_expiry, fetch, fetch_calls>>
    /\ UNCHANGED outsideFetch

\* _fetch_info on the thread of call k: the record is written to the cache
InfoSetCachedData(k) ==
    /\ info_threads[k].pc = "set_cached_data"
    /\ SetTranscripts(info_cache_key(video_id), info_threads[k].value[1],
                      CACHE_TTL_VIDEO_INFO)
    /\ Log(Event(k, "info", "set_cached_data",
                              info_cache_key(video_id), CACHE_TTL_VIDEO_INFO))
    /\ info_threads' = [info_threads EXCEPT ![k].pc = "finished"]
    /\ UNCHANGED <<fetch, fetch_calls>>
    /\ UNCHANGED outsideFetch

\* time passes between two calls: past the expiry of the briefly cached
\* record, or past that of the metadata and the slices
FetchTickSteps == {CACHE_TTL_VIDEO_INFO_FALLBACK + 1, CACHE_TTL_VIDEO_INFO + 1}
FetchTicksTaken(t) ==
    (t \div (CACHE_TTL_VIDEO_INFO + 1))
    + ((t % (CACHE_TTL_VIDEO_INFO + 1)) \div (CACHE_TTL_VIDEO_INFO_FALLBACK + 1))

TickBetweenCalls ==
    /\ fetch.pc = "idle"
    /\ FetchTicksTaken(now) < MaxTicks
    /\ \E d \in FetchTickSteps : now' = now + d
    /\ UNCHANGED <<cache, cache_expiry, url, submit_pc, seen, ops>>
    /\ UNCHANGED jobVars
    /\ UNCHANGED outsideJob

NextFetch ==
    \/ FetchCall
    \/ FetchGetTranscript
    \/ FetchGetInfo
    \/ FetchGetSlice
    \/ FetchSetSliceOfCached
    \/ FetchTranscript
    \/ FetchSetTranscript
    \/ FetchJoin
    \/ FetchSetFallbackInfo
    \/ FetchFilter
    \/ FetchSetSlice
    \/ \E k \in DOMAIN info_threads : InfoGetVideoInfo(k)
    \/ \E k \in DOMAIN info_threads : InfoSetCachedData(k)
    \/ TickBetweenCalls

FetchSpec == InitFetch /\ [][NextFetch]_vars

(***************************************************************************)
(* _filter_transcript_by_time on its own: every artifact of at most        *)
(* MaxEntries entries in the order of their start offsets, and every       *)
(* window over the bounds below.                                           *)
(***************************************************************************)
Texts == {"hello", "world"}
Starts == {0, 5, 10}
WindowBounds == {None, Some(4), Some(5), Some(10)}

\* the artifacts: the upstream gives the entries in the order of their start
Artifacts ==
    {entries \in UNION {[1..n -> [text : Texts, start : Starts]] :
                          n \in 0..MaxEntries} :
       \A i \in 1..(Len(entries) - 1) : entries[i].start <= entries[i + 1].start}

outsideFilter == <<cache, cache_expiry, now, url, submit_pc, seen, ops,
                   jobVars, cacheCallVars, retryVars, summarizeVars,
                   fetchVars, percentageVars, formVars, controllerVars>>

InitFilter ==
    /\ JobAtRest
    /\ CacheCallersIdle
    /\ RetryIdle
    /\ SummarizeIdle
    /\ FetchIdle
    /\ PercentageIdle
    /\ FormIdle
    /\ ControllerIdle
    /\ cache = EmptyDict
    /\ cache_expiry = EmptyDict
    /\ now = 0
    /\ filter_args \in [transcript_data :
                            {Some(PyValue("list", 0, entries)) :
                               entries \in Artifacts},
                        start_time : WindowBounds,
                        end_time : WindowBounds]
    /\ filter_ret = None

FilterCall ==
    /\ filter_ret = None
    /\ filter_ret' = Some(_filter_transcript_by_time(filter_args.transcript_data,
                                                     filter_args.start_time,
                                                     filter_args.end_time))
    /\ UNCHANGED filter_args
    /\ UNCHANGED outsideFilter

NextFilter == FilterCall

FilterSpec == InitFilter /\ [][NextFilter]_vars

(***************************************************************************)
(* submit_task from the form on: validate_form_data, the conversion of     *)
(* the window, then the enqueue and initialize_progress steps above.       *)
(***************************************************************************)
MAX_CUSTOM_PROMPT_LENGTH == 2000
YOUTUBE_DOMAINS == {"www.youtube.com", "youtube.com", "youtu.be"}
ERROR_SERVICE_UNAVAILABLE == "Service temporarily unavailable due to initialization issues."
ERROR_NO_DATA_PROVIDED == "No data provided"
ERROR_NO_URL_PROVIDED == "Please provide a YouTube URL"
ERROR_NOT_YOUTUBE == "Please provide a valid YouTube URL (youtube.com or youtu.be)"
ERROR_PROMPT_TOO_LONG == "Custom prompt is too long (max 2000 characters)"
ERROR_START_FORMAT == "Start time must be in HH:MM:SS format"
ERROR_END_FORMAT == "End time must be in HH:MM:SS format"
ERROR_INVALID_TIMESTAMP == "Invalid timestamp format"
ERROR_START_BEFORE_END == "Start time must be before end time"
ERROR_CONVERT == "Invalid timestamp format: ..."

\* the forms: a timestamp is its parts between the colons, a part its
\* characters
Schemes == {"https", "ftp"}
Netlocs == {"www.youtube.com", "youtube.com", "youtu.be", "www.youtu.be",
            "example.com"}
Paths == {<<>>, <<"watch">>, <<"live", "X1">>, <<"live", "">>, <<"X1">>}
Links == {EmptyLink}
         \cup {Link(s, n, p, v) : s \in Schemes, n \in Netlocs, p \in Paths,
                                  v \in {NoneStr, "X1"}}
Prompts == {Prompt(pad, chars) :
              pad \in {0, 1},
              chars \in {0, MAX_CUSTOM_PROMPT_LENGTH,
                         MAX_CUSTOM_PROMPT_LENGTH + 1}}
Timestamps == {<<>>,
               << <<"0">>, <<"0", "0">>, <<"0", "4">> >>,
               << <<"0">>, <<"0", "0">>, <<"1", "0">> >>,
               << <<"0">>, <<"6", "0">>, <<"0", "0">> >>,
               << <<"0">>, <<"1", "0">> >>,
               << <<"x">>, <<"0", "0">>, <<"0", "1">> >>}
Forms == {Form(l, p, s, e) : l \in Links, p \in Prompts,
                             s \in Timestamps, e \in Timestamps}

\* str.strip() of a prompt, and len() of a prompt
strip(prompt) == Prompt(0, prompt.chars)
len(prompt) == 2 * prompt.pad + prompt.chars

\* re.match(YOUTUBE_URL_PATTERN, url): after the host a slash and at least
\* one more character
matches_youtube(link) ==
    /\ link.scheme \in {"http", "https"}
    /\ link.netloc \in {"www.youtube.com", "youtube.com", "www.youtu.be",
                        "youtu.be"}
    /\ (link.path # <<>> \/ link.v # NoneStr)

IsDigits(part) == \A i \in DOMAIN part : \E d \in DOMAIN Digits : Digits[d] = part[i]
\* [0-5]?[0-9]
IsMinSec(part) ==
    /\ Len(part) \in {1, 2}
    /\ IsDigits(part)
    /\ Len(part) = 2 => part[1] \in {"0", "1", "2", "3", "4", "5"}
_is_valid_timestamp(timestamp) ==
    /\ Len(timestamp) = 3
    /\ timestamp[1] # <<>>
    /\ IsDigits(timestamp[1])
    /\ IsMinSec(timestamp[2])
    /\ IsMinSec(timestamp[3])

\* int() of a part that is all digits
RECURSIVE int(_)
int(part) ==
    IF part = <<>> THEN 0
    ELSE 10 * int(SubSeq(part, 1, Len(part) - 1))
         + (CHOOSE d \in 0..9 : Digits[d + 1] = part[Len(part)])

Converted(seconds) == [raised |-> FALSE, seconds |-> seconds]
ConvertRaised == [raised |-> TRUE, seconds |-> 0]
_convert_time_to_seconds(time_str) ==
    IF Len(time_str) # 3 THEN ConvertRaised
    ELSE IF \E i \in 1..3 : time_str[i] = <<>> \/ ~IsDigits(time_str[i])
    THEN ConvertRaised
    ELSE IF int(time_str[2]) > 59 \/ int(time_str[3]) > 59
    THEN ConvertRaised
    ELSE Converted(int(time_str[1]) * 3600 + int(time_str[2]) * 60
                   + int(time_str[3]))

Valid == [is_valid |-> TRUE, error_message |-> ""]
Invalid(error_message) == [is_valid |-> FALSE, error_message |-> error_message]
validate_form_data(data) ==
    IF data = NoFields THEN Invalid(ERROR_NO_DATA_PROVIDED)
    ELSE IF data.link = EmptyLink THEN Invalid(ERROR_NO_URL_PROVIDED)
    ELSE IF ~matches_youtube(data.link) THEN Invalid(ERROR_NOT_YOUTUBE)
    ELSE IF len(strip(data.prompt)) > MAX_CUSTOM_PROMPT_LENGTH
    THEN Invalid(ERROR_PROMPT_TOO_LONG)
    ELSE IF data.start_time # <<>> /\ ~_is_valid_timestamp(data.start_time)
    THEN Invalid(ERROR_START_FORMAT)
    ELSE IF data.end_time # <<>> /\ ~_is_valid_timestamp(data.end_time)
    THEN Invalid(ERROR_END_FORMAT)
    ELSE IF data.start_time # <<>> /\ data.end_time # <<>>
    THEN IF \/ _convert_time_to_seconds(data.start_time).raised
            \/ _convert_time_to_seconds(data.end_time).raised
         THEN Invalid(ERROR_INVALID_TIMESTAMP)
         ELSE IF _convert_time_to_seconds(data.start_time).seconds
                   >= _convert_time_to_seconds(data.end_time).seconds
         THEN Invalid(ERROR_START_BEFORE_END)
         ELSE Valid
    ELSE Valid

\* VideoModel._validate_url and extract_video_id, which the job calls on
\* the link submit_task handed it
_validate_url(link) == link # EmptyLink /\ link.netloc \in YOUTUBE_DOMAINS

Extracted(id) == [raised |-> FALSE, id |-> id]
ExtractRaised == [raised |-> TRUE, id |-> ""]
extract_video_id(link) ==
    IF ~_validate_url(link) THEN ExtractRaised
    ELSE IF link.netloc = "youtu.be"
    THEN IF link.path = <<>> \/ link.path[1] = "" THEN ExtractRaised
         ELSE Extracted(link.path[1])
    ELSE IF \E i \in 1..(Len(link.path) - 1) : link.path[i] = "live"
    THEN LET i == CHOOSE j \in 1..(Len(link.path) - 1) :
                    /\ link.path[j] = "live"
                    /\ \A k \in 1..(j - 1) : link.path[k] # "live"
         IN IF link.path[i + 1] = "" THEN ExtractRaised
            ELSE Extracted(link.path[i + 1])
    ELSE IF link.v = NoneStr THEN ExtractRaised
    ELSE Extracted(link.v)

\* the branch process_video_or_playlist takes for the link
UrlOf(link) ==
    IF ~_validate_url(link) THEN "bad"
    ELSE IF extract_video_id(link).raised THEN "video_noid"
    ELSE "video"

ErrorAnswer(code, error) == [code |-> code, error |-> error]

InitSubmit ==
    /\ CacheCallersIdle
    /\ RetryIdle
    /\ SummarizeIdle
    /\ FetchIdle
    /\ FilterIdle
    /\ PercentageIdle
    /\ ControllerIdle
    /\ cache = EmptyDict
    /\ cache_expiry = EmptyDict
    /\ now = 0
    /\ request \in [video_controller : BOOLEAN, form : Forms]
    /\ answer = None
    /\ url = UrlOf(request.form.link)
    /\ submit_pc = "validate"
    /\ job_pc = "idle"
    /\ call = NoCall
    /\ after = ""
    /\ progress_data = None
    /\ result = None
    /\ video_ids = <<>>
    /\ playlist_results = <<>>
    /\ completed_count = 0
    /\ futures = <<>>
    /\ seen = Unpolled
    /\ ops = 0

\* submit_task up to the point where it has the arguments of the job
SubmitValidate ==
    /\ submit_pc = "validate"
    /\ LET form == request.form
           checked == validate_form_data(form)
       IN IF ~request.video_controller
          THEN /\ answer' = Some(ErrorAnswer(503, ERROR_SERVICE_UNAVAILABLE))
               /\ submit_pc' = "done"
          ELSE IF ~checked.is_valid
          THEN /\ answer' = Some(ErrorAnswer(400, checked.error_message))
               /\ submit_pc' = "done"
          ELSE IF \/ /\ form.start_time # <<>>
                     /\ _convert_time_to_seconds(form.start_time).raised
                  \/ /\ form.end_time # <<>>
                     /\ _convert_time_to_seconds(form.end_time).raised
          THEN /\ answer' = Some(ErrorAnswer(400, ERROR_CONVERT))
               /\ submit_pc' = "done"
          ELSE /\ submit_pc' = "enqueue"
               /\ UNCHANGED answer
    /\ UNCHANGED <<cache, cache_expiry, now, url, seen, ops, request>>
    /\ UNCHANGED <<jobVars, cacheCallVars, retryVars, summarizeVars,
                   fetchVars, filterVars, percentageVars, controllerVars>>

NextSubmit ==
    \/ SubmitValidate
    \/ SubmitEnqueue
    \/ SubmitInitialize

SubmitSpec == InitSubmit /\ [][NextSubmit]_vars

(***************************************************************************)
(* task_status: progress_percentage.  completed_items / total_items is a   *)
(* float division and the product with 100 a float product, both rounded   *)
(* to the nearest binary64 value, ties to even; int() then truncates.  A   *)
(* float is its significand of MANT_DIG bits, held as three limbs of       *)
(* HI_BITS, MID_BITS and LO_BITS bits, and the exponent of its last bit.   *)
(***************************************************************************)
MANT_DIG == 53
HI_BITS == 18
MID_BITS == 18
LO_BITS == MANT_DIG - HI_BITS - MID_BITS

RECURSIVE Pow2(_)
Pow2(n) == IF n = 0 THEN 1 ELSE 2 * Pow2(n - 1)

Float(hi, mid, lo, exp) == [hi |-> hi, mid |-> mid, lo |-> lo, exp |-> exp]
Zero == Float(0, 0, 0, 0)

\* r doubled until it reaches t, and the number of doublings
RECURSIVE Normalised(_, _)
Normalised(r, t) == IF r >= t THEN r ELSE Normalised(2 * r, t)
RECURSIVE Lead(_, _)
Lead(r, t) == IF r >= t THEN 0 ELSE 1 + Lead(2 * r, t)

\* the number of bits of n
RECURSIVE BitLength(_)
BitLength(n) == IF n = 0 THEN 0 ELSE 1 + BitLength(n \div 2)

\* round to nearest, ties to even: hi, mid, lo are the MANT_DIG kept bits,
\* guard the first bit dropped, sticky whether anything follows it, exp
\* the exponent of the last kept bit
Rounded(hi, mid, lo, guard, sticky, exp) ==
    LET up == IF guard = 1 /\ (sticky \/ lo % 2 = 1) THEN 1 ELSE 0
        lo1 == lo + up
        mid1 == mid + lo1 \div Pow2(LO_BITS)
        hi1 == hi + mid1 \div Pow2(MID_BITS)
    IN IF hi1 = Pow2(HI_BITS)
       THEN Float(Pow2(HI_BITS - 1), 0, 0, exp + 1)
       ELSE Float(hi1, mid1 % Pow2(MID_BITS), lo1 % Pow2(LO_BITS), exp)

\* completed_items / total_items for 0 < total_items < 2^13: long
\* division, one limb at a time
truediv(c, t) ==
    IF c = 0 THEN Zero
    ELSE LET r0 == Normalised(c, t)
             hi == (r0 * Pow2(HI_BITS - 1)) \div t
             r1 == (r0 * Pow2(HI_BITS - 1)) % t
             mid == (r1 * Pow2(MID_BITS)) \div t
             r2 == (r1 * Pow2(MID_BITS)) % t
             lo == (r2 * Pow2(LO_BITS)) \div t
             r3 == (r2 * Pow2(LO_BITS)) % t
         IN Rounded(hi, mid, lo, (2 * r3) \div t, (2 * r3) % t # 0,
                    0 - (Lead(c, t) + MANT_DIG - 1))

\* x * 100: the exact product limb by limb with carry, then its first
\* MANT_DIG bits
mul100(x) ==
    IF x = Zero THEN Zero
    ELSE LET p_lo == x.lo * 100
             p_mid == x.mid * 100 + p_lo \div Pow2(LO_BITS)
             p_hi == x.hi * 100 + p_mid \div Pow2(MID_BITS)
             o_lo == p_lo % Pow2(LO_BITS)
             o_mid == p_mid % Pow2(MID_BITS)
             dropped == BitLength(p_hi) - HI_BITS
         IN Rounded(p_hi \div Pow2(dropped),
                    (p_hi % Pow2(dropped)) * Pow2(MID_BITS - dropped)
                        + o_mid \div Pow2(dropped),
                    (o_mid % Pow2(dropped)) * Pow2(LO_BITS - dropped)
                        + o_lo \div Pow2(dropped),
                    (o_lo \div Pow2(dropped - 1)) % 2,
                    o_lo % Pow2(dropped - 1) # 0,
                    x.exp + dropped)

\* int(x) for 0 <= x < 2^HI_BITS: the bits of hi before the point
trunc(x) ==
    LET behind == 0 - x.exp - MID_BITS - LO_BITS
    IN IF x = Zero \/ behind >= HI_BITS THEN 0 ELSE x.hi \div Pow2(behind)

progress_percentage(completed_items, total_items) ==
    IF total_items > 0
    THEN trunc(mul100(truediv(completed_items, total_items)))
    ELSE 0

outsidePercentage == <<cache, cache_expiry, now, url, submit_pc, seen, ops,
                       jobVars, cacheCallVars, retryVars, summarizeVars,
                       fetchVars, filterVars, formVars,
                       controllerVars>>

InitPercentage ==
    /\ JobAtRest
    /\ CacheCallersIdle
    /\ RetryIdle
    /\ SummarizeIdle
    /\ FetchIdle
    /\ FilterIdle
    /\ FormIdle
    /\ ControllerIdle
    /\ cache = EmptyDict
    /\ cache_expiry = EmptyDict
    /\ now = 0
    /\ percentage_args \in {counters \in [completed_items : 0..MaxTotal,
                                          total_items : 0..MaxTotal] :
                              counters.completed_items <= counters.total_items}
    /\ percentage_ret = None

TaskStatusPercentage ==
    /\ percentage_ret = None
    /\ percentage_ret' = Some(progress_percentage(percentage_args.completed_items,
                                                  percentage_args.total_items))
    /\ UNCHANGED percentage_args
    /\ UNCHANGED outsidePercentage

NextPercentage == TaskStatusPercentage

PercentageSpec == InitPercentage /\ [][NextPercentage]_vars

(***************************************************************************)
(* VideoController.process_video: fetch_transcript_with_info, then         *)
(* summarize_text when there is a transcript, then _build_video_data.      *)
(* The call that is running is the one whose record is not built yet; the  *)
(* transcript field of its record is None or Some(text).                   *)
(***************************************************************************)
\* what str(e) can be when summarize_text raised
SummarizeErrors == {ERR_MODEL_NOT_INITIALIZED, ERR_KEYS_EXHAUSTED,
                    ERR_UNEXPECTED_API, ERR_AFTER_ALL_KEYS}

\* variant: the summary is asked for whatever the transcript
should_summarize_always(transcript) == TRUE

\* if transcript:
should_summarize(transcript) == transcript # <<>>

\* process_video has been entered and has not returned
ProcessVideoRunning == Len(built) < fetch_calls

\* the records of the calls that got as far as summarize_text
Summarized == {i \in DOMAIN built :
                 \/ built[i].summary_markdown # NoneStr
                 \/ built[i].error \in SummarizeErrors}
\* the call that is running has called summarize_text
summarize_called == summarize_calls > Cardinality(Summarized)

InitItem ==
    /\ JobAtRest
    /\ CacheCallersIdle
    /\ RetryIdle
    /\ FetchIdle
    /\ PureIdle
    /\ ControllerIdle
    /\ cache = EmptyDict
    /\ cache_expiry = EmptyDict
    /\ now = 0
    /\ \E n \in 1..2 : api_keys \in [1..n -> KeyOutcomes]
    /\ current_api_key_index = 0
    /\ model \in {Some(0), None}
    /\ sz = [w \in Summarizers |-> IdleSummarizer]
    /\ rotated = <<0>>
    /\ summarize_calls = 0

\* process_video is called: it calls fetch_transcript_with_info
ProcessVideoCall ==
    /\ ~ProcessVideoRunning
    /\ FetchCall

\* summary = self.video_model.summarize_text(transcript, custom_prompt)
ProcessVideoSummarize ==
    /\ ProcessVideoRunning
    /\ fetch.pc = "idle"
    /\ fetch.out.kind = "returned"
    /\ should_summarize(fetch.out.text)
    /\ ~summarize_called
    /\ SummarizeCall("W1")

\* the record is built, in the try block or in the except clause
ProcessVideoReturn ==
    /\ ProcessVideoRunning
    /\ fetch.pc = "idle"
    /\ sz["W1"].pc = "idle"
    /\ \/ /\ fetch.out.kind = "raised"
          /\ built' = Append(built, _build_video_data(video_id, None, NoneStr,
                                                      fetch.out.error))
       \/ /\ fetch.out.kind = "returned"
          /\ ~should_summarize(fetch.out.text)
          /\ built' = Append(built, _build_video_data(video_id,
                                                      Some(fetch.out.text),
                                                      NoneStr, NoneStr))
       \/ /\ fetch.out.kind = "returned"
          /\ should_summarize(fetch.out.text)
          /\ summarize_called
          /\ sz["W1"].out.kind = "returned"
          /\ built' = Append(built, _build_video_data(video_id,
                                                      Some(fetch.out.text),
                                                      sz["W1"].out.value,
                                                      NoneStr))
       \/ /\ fetch.out.kind = "returned"
          /\ should_summarize(fetch.out.text)
          /\ summarize_called
          /\ sz["W1"].out.kind = "raised"
          /\ built' = Append(built, _build_video_data(video_id, None, NoneStr,
                                                      sz["W1"].out.value))
    /\ UNCHANGED <<cache, cache_expiry, now, url, submit_pc, seen, ops>>
    /\ UNCHANGED <<jobVars, cacheCallVars, retryVars, summarizeVars,
                   fetchVars, pureVars>>

NextItem ==
    \/ ProcessVideoCall
    \/ FetchGetTranscript
    \/ FetchGetInfo
    \/ FetchGetSlice
    \/ FetchSetSliceOfCached
    \/ FetchTranscript
    \/ FetchSetTranscript
    \/ FetchJoin
    \/ FetchSetFallbackInfo
    \/ FetchFilter
    \/ FetchSetSlice
    \/ \E k \in DOMAIN info_threads : InfoGetVideoInfo(k)
    \/ \E k \in DOMAIN info_threads : InfoSetCachedData(k)
    \/ ProcessVideoSummarize
    \/ Generate("W1")
    \/ GetNextApiKeyLoad("W1")
    \/ GetNextApiKeyStore("W1")
    \/ ConfigureGeminiApi("W1")
    \/ ProcessVideoReturn

ItemSpec == InitItem /\ [][NextItem]_vars

(***************************************************************************)
(* The worker pool of _process_playlist on playlists long enough for the   *)
(* cap to bind.  The job starts where get_playlist_info has returned the   *)
(* ids; the handler has written the record of the task before.             *)
(***************************************************************************)
InitPool ==
    /\ CacheCallersIdle
    /\ RetryIdle
    /\ ItemIdle
    /\ LET st == initialize_progress([c |-> EmptyDict, e |-> EmptyDict],
                                     task_id, 1, 0)
       IN cache = st.c /\ cache_expiry = st.e
    /\ now = 0
    /\ url = "playlist"
    /\ submit_pc = "done"
    /\ job_pc = "playlist_initialize"
    /\ call = NoCall
    /\ after = ""
    /\ progress_data = None
    /\ result = None
    /\ \E n \in 1..MaxPoolItems : video_ids = [i \in 1..n |-> PlaylistId(i)]
    /\ playlist_results = <<>>
    /\ completed_count = 0
    /\ futures = <<>>
    /\ seen = Unpolled
    /\ ops = 0

NextPool ==
    \/ PlaylistInitialize
    \/ WorkerStart
    \/ WorkerFinish
    \/ FanIn
    \/ FanInReturn
    \/ RunnerCheck
    \/ UpdateTaskStatus
    \/ SetCachedData
    \/ LogFinal
    \/ LogFinalGet

PoolSpec == InitPool /\ [][NextPool]_vars

(***************************************************************************)
(* The fan-in loop when the progress update fails.  update_progress goes   *)
(* to the cache backend, and on the external store a get or a setex raises *)
(* when the connection is lost; the loop catches the exception and goes on *)
(* with the next future.  The playlists are those of the whole job.        *)
(***************************************************************************)
InitFanIn ==
    /\ CacheCallersIdle
    /\ RetryIdle
    /\ ItemIdle
    /\ LET st == initialize_progress([c |-> EmptyDict, e |-> EmptyDict],
                                     task_id, 1, 0)
       IN cache = st.c /\ cache_expiry = st.e
    /\ now = 0
    /\ url = "playlist"
    /\ submit_pc = "done"
    /\ job_pc = "playlist_initialize"
    /\ call = NoCall
    /\ after = ""
    /\ progress_data = None
    /\ result = None
    /\ \E n \in 1..MaxItems : video_ids = [i \in 1..n |-> PlaylistId(i)]
    /\ playlist_results = <<>>
    /\ completed_count = 0
    /\ futures = <<>>
    /\ seen = Unpolled
    /\ ops = 0

\* variant: the progress update comes before the slot is filled, so that
\* its exception leaves the slot as it was
FanInUpdateRaises_before_slot ==
    /\ job_pc = "as_completed"
    /\ \E index \in DOMAIN futures :
         /\ futures[index].state = "done"
         /\ futures' = [futures EXCEPT ![index].state = "yielded"]
    /\ UNCHANGED <<cache, cache_expiry, now, url, submit_pc, job_pc, call,
                   after, progress_data, result, video_ids, playlist_results,
                   completed_count, seen, ops>>
    /\ UNCHANGED outsideJob

\* one round of the fan-in loop in which update_progress raises: the slot
\* has been filled and the counter stepped, the record is not written, and
\* the except clause continues the loop
FanInUpdateRaises ==
    /\ job_pc = "as_completed"
    /\ \E index \in DOMAIN futures :
         /\ futures[index].state = "done"
         /\ futures' = [futures EXCEPT ![index].state = "yielded"]
         /\ playlist_results' =
              [playlist_results EXCEPT
                 ![SlotOf(index)] = futures[index].video_data]
         /\ completed_count' = completed_count + 1
    /\ UNCHANGED <<cache, cache_expiry, now, url, submit_pc, job_pc, call,
                   after, progress_data, result, video_ids, seen, ops>>
    /\ UNCHANGED outsideJob

NextFanIn ==
    \/ NextPool
    \/ FanInUpdateRaises

FanInSpec == InitFanIn /\ [][NextFanIn]_vars

(***************************************************************************)
(* Properties                                                              *)
(***************************************************************************)
Key == namespaced_key(CACHE_NAMESPACE_PROGRESS, task_id)
HasRecord == Key \in DOMAIN cache
Rec == pickle_loads(cache[Key])

FanOutReturned == url = "playlist" /\ result # None /\ result[1].is_playlist
FailedItem(i) == futures[i].outcome \in {"upstream_error", "unexpected"}

\* C1: on the thread-per-job queue every submitted task ends completed or
\* failed and stays so, in every interleaving of the submit handler and the
\* job thread; stated on the final state: once the handler has returned and
\* the job thread has finished, the task record shows completed or failed.
C1_EndsTerminal ==
    (submit_pc = "done" /\ job_pc = "done" /\ HasRecord)
        => Rec.status \in Terminal

\* C2: the record is created by the submit handler's initialize_progress
\* before the job starts: every write of the job thread to the task record
\* happens after the handler's initialize_progress.
C2_InitBeforeJobWrites ==
    [][(SetCachedData \/ PlaylistInitialize) => submit_pc = "done"]_vars

\* C3: update_progress on a record whose status is completed or failed
\* changes neither the status nor completed_items.
C3_UpdateAfterTerminalIsNoOp ==
    [][(TrackerUpdate /\ HasRecord /\ Rec.status \in Terminal /\ HasRecord')
          => (Rec'.status = Rec.status
              /\ Rec'.completed_items = Rec.completed_items)]_vars

StatusStep(a, b) ==
    \/ a = b
    \/ a = TASK_STATUS_PENDING /\ b # TASK_STATUS_PENDING
    \/ a = TASK_STATUS_IN_PROGRESS /\ b \in Terminal

\* C4: over the tracker calls of the submit handler, the controller and the
\* runner the status of the record only moves pending -> in_progress ->
\* {completed, failed}: never from a terminal status to another one and
\* never back to pending.
C4_StatusMonotonic ==
    [][(HasRecord /\ HasRecord') => StatusStep(Rec.status, Rec'.status)]_vars

SingleItemFailed ==
    /\ url = "video"
    /\ result # None
    /\ Len(result[1].videos) = 1
    /\ result[1].videos[1].error # NoneStr

\* C6: a single-item job whose item fails with an upstream error ends with
\* status failed.
C6_SingleItemFailureFailsTask ==
    (job_pc = "done" /\ SingleItemFailed /\ HasRecord)
        => Rec.status = TASK_STATUS_FAILED

ValidSlot(i, slot) ==
    /\ slot # NullSlot
    /\ slot.id = video_ids[i]
    /\ slot.error = NoneStr
    /\ slot.transcript # NoneStr

ErrorSlot(i, slot) ==
    /\ slot # NullSlot
    /\ slot.id = video_ids[i]
    /\ slot.error # NoneStr
    /\ slot.transcript = NoneStr
    /\ slot.summary_markdown = NoneStr

SlotsMatchFailures(videos) ==
    /\ Len(videos) = Len(video_ids)
    /\ \A i \in 1..Len(video_ids) :
         IF FailedItem(i) THEN ErrorSlot(i, videos[i])
         ELSE ValidSlot(i, videos[i])

C8_ResultsInInputOrder ==
    FanOutReturned =>
        /\ Len(result[1].videos) = Len(video_ids)
        /\ \A i \in 1..Len(video_ids) :
             /\ result[1].videos[i] = futures[i].video_data
             /\ result[1].videos[i].id = video_ids[i]

\* C8 witness: three items, the third completed (and was yielded) first, the
\* first one last, and the collection has been returned.
C8_Witness_ReverseCompletion ==
    /\ FanOutReturned
    /\ Len(video_ids) = 3
    /\ FailedItem(3) /\ FailedItem(1) /\ ~FailedItem(2)
    /\ futures[3].outcome # futures[1].outcome
    /\ HasRecord
    /\ Len(Rec.errors) = 2
    /\ Rec.errors[1].item_details = Processed(1, 3)
    /\ Rec.errors[1].error = futures[3].video_data.error
    /\ Rec.errors[2].item_details = Processed(3, 3)
    /\ Rec.errors[2].error = futures[1].video_data.error

\* C9: when the body of a multi-item job of N items returns, completed_items
\* of the task record is N, in every interleaving with the submit handler.
C9_AllIncrementsCounted ==
    (FanOutReturned /\ job_pc = "runner_check" /\ HasRecord)
        => Rec.completed_items = Len(video_ids)

\* C10: completed_items of a task record never decreases and always lies
\* between 0 and total_items.
C10_CompletedBounded ==
    [][/\ HasRecord' => (0 <= Rec'.completed_items
                         /\ Rec'.completed_items <= Rec'.total_items)
       /\ (HasRecord /\ HasRecord')
            => Rec.completed_items <= Rec'.completed_items]_vars

IsPrefix(s, t) == Len(s) <= Len(t) /\ \A i \in 1..Len(s) : s[i] = t[i]

\* C11: the errors of a task record are append-only: over the tracker calls
\* on one task id (initialize_progress, update_progress, mark_task_completed,
\* mark_task_failed) the errors of the record before a step are a prefix of
\* the errors of the record after it.
C11_ErrorsAppendOnly ==
    [][(HasRecord /\ HasRecord') => IsPrefix(Rec.errors, Rec'.errors)]_vars

\* C12: in every reachable state of a task record, result is populated only
\* if status is completed.
C12_ResultOnlyIfCompleted ==
    HasRecord => (Rec.result # None => Rec.status = TASK_STATUS_COMPLETED)

\* C12 witness: the runner of a single-video job has stored its result and
\* the record is completed.
C12_Witness_CompletedWithResult ==
    /\ url = "video"
    /\ job_pc = "done"
    /\ HasRecord
    /\ Rec.result # None
    /\ Rec.result = result
    /\ Rec.status = TASK_STATUS_COMPLETED

\* a step of the job thread in which an exception reaches the runner: the
\* constructor of the controller failed, or a read of the task record
\* returned None where the runner calls .get on it
RunnerCatches ==
    \/ RunnerConstruct /\ job_pc' # "process_video_or_playlist"
    \/ RunnerCheck /\ runner_verdict(result[1], get_progress(task_id)) = "raise"
    \/ LogFinalGet /\ get_progress(task_id) = None

\* C13: the runner never lets an exception escape: no step ends the job
\* thread with an unhandled exception; a step in which an exception reaches
\* the runner enters mark_task_failed with a message and returns after it;
\* and the write that ends that call leaves the record failed with the
\* message in its errors.
C13_RunnerNeverLetsEscape ==
    [][/\ job_pc' # "escaped"
       /\ RunnerCatches =>
            /\ job_pc' = "_update_task_status"
            /\ call'.status = TASK_STATUS_FAILED
            /\ call'.error_message \notin {NoneStr, ""}
            /\ after' = "done"
       /\ (SetCachedData /\ after = "done") =>
            /\ job_pc' = "done"
            /\ HasRecord'
            /\ Rec'.status = TASK_STATUS_FAILED
            /\ Len(Rec'.errors) > 0
            /\ Rec'.errors[Len(Rec'.errors)].error = call.error_message]_vars

\* C13 witness: the record of an invalid-url job expired between the
\* controller's mark_task_failed and the runner's read of the record; the
\* AttributeError was caught and the runner left a failed record.
C13_Witness_ReadRaisedAndCaught ==
    /\ url = "bad"
    /\ job_pc = "done"
    /\ now > default_ttl
    /\ HasRecord
    /\ Rec.status = TASK_STATUS_FAILED
    /\ Rec.errors = <<[item_details |-> OverallTask, error |-> ERR_UNEXPECTED]>>

LastKey == namespaced_key(last.namespace, last.key)

\* C14: get_cached_data called right after set_cached_data on the same
\* namespace and key, no time elapsed, returns a value equal to the one
\* stored, for structured and for falsy values, every namespace and key,
\* and every time to live that has not already run out when it is set.
C14_GetAfterSetReturnsValue ==
    [][(/\ last.op = "set"
        /\ last'.op = "get"
        /\ last'.namespace = last.namespace
        /\ last'.key = last.key
        /\ last'.t = last.t)
          => last'.returned = Some(last.value)]_vars

\* C14 witness: the falsy value, stored with an explicit time to live under
\* a key that holds the separator, has been read back.
C14_Witness_FalsyReadBack ==
    /\ last.op = "get"
    /\ last.key = <<"b", ":", "k">>
    /\ last.returned = Some(PyValue("int", 0, <<>>))
    /\ ~use_redis
    /\ LastKey \in DOMAIN cache_expiry
    /\ cache_expiry[LastKey] = now + 1

\* C15: on the in-process backend, a get made once the time to live has
\* elapsed since the set, exactly elapsed included, returns absent and
\* removes the entry from the value map and from the expiry map; no get
\* returns a value whose expiry has been reached.
C15_AbsentFromExpiryOn ==
    [][(/\ ~use_redis
        /\ cache_calls' = cache_calls + 1
        /\ last'.op = "get"
        /\ LastKey' \in DOMAIN cache_expiry
        /\ now >= cache_expiry[LastKey'])
          => /\ last'.returned = None
             /\ LastKey' \notin DOMAIN cache'
             /\ LastKey' \notin DOMAIN cache_expiry']_vars

Unreachable == redis_url # "" /\ ping(redis_url) # "PONG"

\* C17: when the external backend is configured and cannot be reached at
\* construction, construction succeeds, the degraded mode is recorded in the
\* flag use_redis, and every later call works on the in-process maps: the
\* external store is never written and a set is found in the value map.
C17_FallsBackToInProcess ==
    /\ cm_pc # "raised"
    /\ (cm_pc = "ready" /\ Unreachable) =>
         /\ use_redis = FALSE
         /\ redis = [c |-> EmptyDict, e |-> EmptyDict]
         /\ last.op = "set" =>
              /\ LastKey \in DOMAIN cache
              /\ pickle_loads(cache[LastKey]) = last.value
              /\ LastKey \in DOMAIN cache_expiry

\* C17 witness: the server timed out at construction, and a value set
\* afterwards has been read back from the in-process maps.
C17_Witness_DegradedServesCalls ==
    /\ redis_url = "redis://slow"
    /\ cm_pc = "ready"
    /\ ~use_redis
    /\ last.op = "get"
    /\ last.returned # None
    /\ LastKey \in DOMAIN cache

\* C16: the in-process cache is safe under concurrent callers: in every
\* interleaving of get, set, delete and clear_namespace calls of several
\* threads on the same keys no call raises, and whenever no call is in
\* progress the value map and the expiry map hold the same keys.
C16_SafeUnderConcurrentCallers ==
    /\ \A t \in CallerThreads : th[t].exc = NoneStr
    /\ (\A t \in CallerThreads : th[t].pc = "idle")
          => DOMAIN cache = DOMAIN cache_expiry

\* the i-th call of func raises an error of the configured retryable set
RetryableAt(i) ==
    /\ func[i] # "ok"
    /\ ("Exception" \in errors_to_retry \/ func[i] \in errors_to_retry)

\* the i-th call of func raises an error outside the retryable set
NotRetryableAt(i) ==
    /\ func[i] # "ok"
    /\ "Exception" \notin errors_to_retry
    /\ func[i] \notin errors_to_retry

\* C18: when func fails with a retryable error k times, k < max_retries, and
\* then succeeds, _retry_with_backoff returns the value of that call and has
\* called func exactly k+1 times.
C18_ReturnsAfterKFailures ==
    retry_pc = "done" =>
        \A k \in 0..(max_retries - 1) :
            ((\A i \in 1..k : RetryableAt(i)) /\ func[k + 1] = "ok")
               => /\ retry_out = [kind |-> "returned", value |-> "ok",
                                  call |-> k + 1]
                  /\ func_calls = k + 1

\* C18 witness: two retryable failures, then success on the third and last
\* attempt allowed.
C18_Witness_ThirdAttemptSucceeds ==
    /\ retry_pc = "done"
    /\ max_retries = 3
    /\ RetryableAt(1) /\ RetryableAt(2) /\ func[3] = "ok"
    /\ retry_out.kind = "returned"
    /\ func_calls = 3
    /\ Len(slept) = 2

AlwaysFails == \A i \in 1..max_retries : RetryableAt(i)

\* C19: when func always fails with a retryable error, _retry_with_backoff
\* ends after exactly max_retries calls of func, raises the error of the
\* last call itself, and does not sleep after the final attempt.
C19_RaisesLastErrorAfterMaxRetries ==
    AlwaysFails =>
        /\ func_calls <= max_retries
        /\ func_calls = max_retries => retry_pc # "sleep"
        /\ retry_pc = "done" =>
             /\ func_calls = max_retries
             /\ retry_out = [kind |-> "raised", value |-> func[max_retries],
                             call |-> max_retries]
             /\ Len(slept) = max_retries - 1

\* C19 witness: three attempts that failed with errors of two classes, the
\* last one re-raised after two sleeps.
C19_Witness_ExhaustedThree ==
    /\ retry_pc = "done"
    /\ max_retries = 3
    /\ AlwaysFails
    /\ func[1] # func[3]
    /\ retry_out.kind = "raised"
    /\ retry_out.value = func[3]
    /\ Len(slept) = 2

\* C20: when func raises an error that is not in the retryable set, that
\* error is propagated on that attempt: func is not called again and no
\* sleep follows.
C20_NonRetryablePropagates ==
    \A j \in 1..max_retries :
        ((\A i \in 1..(j - 1) : RetryableAt(i)) /\ NotRetryableAt(j))
           => /\ func_calls <= j
              /\ Len(slept) <= j - 1
              /\ func_calls = j => retry_pc = "done"
              /\ retry_pc = "done" =>
                   /\ func_calls = j
                   /\ retry_out = [kind |-> "raised", value |-> func[j],
                                   call |-> j]

\* C20 witness: a retryable failure, then an error outside the set on the
\* second of three attempts, raised at once.
C20_Witness_SecondAttemptNotRetryable ==
    /\ retry_pc = "done"
    /\ max_retries = 3
    /\ RetryableAt(1) /\ NotRetryableAt(2)
    /\ retry_out = [kind |-> "raised", value |-> func[2], call |-> 2]
    /\ func_calls = 2
    /\ Len(slept) = 1

AllRateLimited == \A k \in DOMAIN api_keys : api_keys[k] = "rate_limited"
SummarizeEnded(w) == sz[w].pc = "idle" /\ sz[w].out # NoOutcome

\* every generate() of the call of w found a configured model
ReachedCredentials(w) ==
    /\ \A j \in DOMAIN sz[w].attempts : sz[w].attempts[j] # None
    /\ sz[w].out # Raised(ERR_MODEL_NOT_INITIALIZED)

\* C21: with N credentials that all fail with a rate-limit error, one
\* summarize_text call makes exactly N generate attempts and then raises the
\* all-credentials-exhausted error, and makes no attempt after that: a call
\* whose attempts all reached a credential has made at most N attempts while
\* it runs, and when it has ended it has made N and raised that error.
C21_ExhaustsAfterNAttempts ==
    \A w \in Summarizers :
        AllRateLimited /\ ReachedCredentials(w) =>
            /\ Len(sz[w].attempts) <= Len(api_keys)
            /\ SummarizeEnded(w) =>
                 /\ sz[w].out = Raised(ERR_KEYS_EXHAUSTED)
                 /\ Len(sz[w].attempts) = Len(api_keys)

C21_Witness_ThreeKeysExhausted ==
    /\ AllRateLimited
    /\ Len(api_keys) = 3
    /\ SummarizeEnded("W1")
    /\ ReachedCredentials("W1")
    /\ sz["W1"].attempts = <<Some(0), Some(1), Some(2)>>
    /\ sz["W1"].out = Raised(ERR_KEYS_EXHAUSTED)

\* C22: rotation is round-robin: each _get_next_api_key call advances the
\* index by one modulo N, and from any index N successive calls select N
\* distinct credentials and bring the index back to where it started.
C22_RoundRobin ==
    LET n == Len(api_keys)
    IN /\ \A j \in 1..(Len(rotated) - 1) :
            rotated[j + 1] = (rotated[j] + 1) % n
       /\ \A j \in 1..(Len(rotated) - n) :
            /\ rotated[j + n] = rotated[j]
            /\ \A a, b \in (j + 1)..(j + n) :
                 a # b => rotated[a] # rotated[b]

\* two windows of three calls, the second starting at index 1
C22_Witness_TwoWindowsOfThree ==
    /\ Len(api_keys) = 3
    /\ Len(rotated) >= 5
    /\ rotated[2] = 1
    /\ rotated[5] = 1

EventsOf(k) == {event \in events : event.call = k}

\* C23: when both the slice for (id, start, end) and the metadata for id are
\* cached, fetch_transcript_with_info returns them without calling the
\* artifact or metadata upstream and without writing to the cache: a call
\* whose reads found both has made no upstream call and no cache write,
\* has started no thread, and returns the two values it read.
C23_CacheHitTouchesNothing ==
    (fetch_calls >= 1 /\ Truthy(fetch.cached_slice) /\ Truthy(fetch.cached_info))
    => /\ EventsOf(fetch_calls) = {}
       /\ info_threads[fetch_calls].pc = "not_started"
       /\ fetch.pc = "idle"
       /\ fetch.out = FetchReturned(fetch.cached_slice[1].items,
                                    fetch.cached_info)

C23_Witness_SecondCallServedFromCache ==
    /\ fetch_calls = 2
    /\ fetch.pc = "idle"
    /\ fetch.start_time = Some(50)
    /\ fetch.end_time = Some(100)
    /\ Truthy(fetch.cached_slice)
    /\ Truthy(fetch.cached_info)
    /\ fetch.out.kind = "returned"
    /\ fetch.out.text = <<"world">>

\* C24: a call that has started the metadata thread does not return or
\* raise before that thread has completed, and the thread writes nothing
\* to the cache after the call has ended.
C24_JoinsMetadataThread ==
    /\ \A k \in DOMAIN info_threads :
         FetchEnded(k) => info_threads[k].pc \in {"not_started", "finished"}
    /\ \A event \in events :
         event.op = "set_cached_data" => ~event.ended

\* C25: the metadata path never raises: when the artifact is available
\* (fetched or cached) and the metadata fetch has failed, the call returns
\* the placeholder record (the id, a title containing the id, the
\* synthesized URL, duration 0) and has cached it with the short TTL.
C25_MetadataFailureGivesPlaceholder ==
    (/\ fetch_calls >= 1
     /\ fetch.pc = "idle"
     /\ info_threads[fetch_calls].failed
     /\ Truthy(fetch.transcript_data))
    => /\ fetch.out.kind = "returned"
       /\ fetch.out.info # None
       /\ LET info == fetch.out.info[1].items[1]
          IN /\ info.id = video_id
             /\ \E i \in DOMAIN info.title : info.title[i] = video_id
             /\ info.url = <<"https://www.youtube.com/watch?v=", video_id>>
             /\ info.duration = 0
       /\ \E event \in EventsOf(fetch_calls) :
            /\ event.by = "main"
            /\ event.op = "set_cached_data"
            /\ event.key = info_cache_key(video_id)
            /\ event.ttl = 300

\* the artifact was fetched by this call
C25_Witness_FetchedArtifact ==
    /\ fetch_calls = 1
    /\ fetch.pc = "idle"
    /\ info_threads[1].failed
    /\ ~Truthy(fetch.cached_transcript)
    /\ Truthy(fetch.transcript_data)
    /\ fetch.out.kind = "returned"

\* the indices of the entries of the artifact whose start lies in the window
Selected ==
    LET entries == filter_args.transcript_data[1].items
    IN {i \in DOMAIN entries :
          /\ filter_args.start_time # None =>
               filter_args.start_time[1] <= entries[i].start
          /\ filter_args.end_time # None =>
               entries[i].start <= filter_args.end_time[1]}

\* C26: for every artifact and every window _filter_transcript_by_time
\* returns the texts of exactly the entries whose start s satisfies
\* start <= s <= end (a missing bound is unbounded), in their original
\* order, joined by single spaces: the k-th selected entry is the piece
\* 2k - 1 of the result, the pieces between are single spaces, and there
\* is nothing else; [(hello, 0), (world, 5)] and [4, 10] give "world".
C26_FilterIsInclusiveWindow ==
    filter_ret # None =>
        LET entries == filter_args.transcript_data[1].items
            text == filter_ret[1]
        IN /\ Len(text) = IF Selected = {} THEN 0
                          ELSE 2 * Cardinality(Selected) - 1
           /\ \A i \in Selected :
                text[2 * Cardinality({j \in Selected : j <= i}) - 1]
                    = entries[i].text
           /\ \A k \in DOMAIN text : k % 2 = 0 => text[k] = " "
           /\ (/\ entries = <<Entry("hello", 0), Entry("world", 5)>>
               /\ filter_args.start_time = Some(4)
               /\ filter_args.end_time = Some(10))
              => text = <<"world">>

C26_Witness_HelloWorldFourToTen ==
    /\ filter_args.transcript_data[1].items
         = <<Entry("hello", 0), Entry("world", 5)>>
    /\ filter_args.start_time = Some(4)
    /\ filter_args.end_time = Some(10)
    /\ filter_ret = Some(<<"world">>)

\* a submission with malformed input, in the words of the claim
NoItemId(form) == extract_video_id(form.link).raised
OverLongPrompt(form) == form.prompt.chars > MAX_CUSTOM_PROMPT_LENGTH
MalformedWindow(form) ==
    \/ form.start_time # <<>> /\ ~_is_valid_timestamp(form.start_time)
    \/ form.end_time # <<>> /\ ~_is_valid_timestamp(form.end_time)
InvertedWindow(form) ==
    /\ form.start_time # <<>> /\ _is_valid_timestamp(form.start_time)
    /\ form.end_time # <<>> /\ _is_valid_timestamp(form.end_time)
    /\ _convert_time_to_seconds(form.start_time).seconds
         > _convert_time_to_seconds(form.end_time).seconds
Malformed(form) ==
    \/ NoItemId(form)
    \/ OverLongPrompt(form)
    \/ MalformedWindow(form)
    \/ InvertedWindow(form)

\* C27: for every submission with malformed input (a link from which no
\* item id can be extracted, an over-long prompt, a malformed or inverted
\* window) submit_task answers with an error, no job is enqueued and
\* initialize_progress is not called.
C27_MalformedCreatesNoTask ==
    Malformed(request.form) =>
        /\ job_pc = "idle"
        /\ namespaced_key(CACHE_NAMESPACE_PROGRESS, task_id) \notin DOMAIN cache
        /\ submit_pc = "done" => answer # None

\* C28: progress_percentage is 0 when total_items is 0 and otherwise
\* exactly floor(completed_items * 100 / total_items) for all integers
\* 0 <= completed_items <= total_items; completed_items = total_items
\* gives 100.
C28_PercentageIsFloor ==
    percentage_ret # None =>
        LET c == percentage_args.completed_items
            t == percentage_args.total_items
        IN /\ t = 0 => percentage_ret[1] = 0
           /\ t > 0 => percentage_ret[1] = (c * 100) \div t
           /\ (t > 0 /\ c = t) => percentage_ret[1] = 100

\* C29: every record process_video builds has an error or a transcript,
\* never both: with an error the transcript and the summary are null, with
\* a summary the error is null; and summarize_text is called only when the
\* text fetch_transcript_with_info returned is not empty.
C29_ErrorOrSummaryNeverBoth ==
    /\ \A i \in DOMAIN built :
         /\ built[i].error # NoneStr =>
              built[i].transcript = None /\ built[i].summary_markdown = NoneStr
         /\ built[i].summary_markdown # NoneStr => built[i].error = NoneStr
         /\ built[i].error = NoneStr => built[i].transcript # None
    /\ summarize_calls > Cardinality(Summarized) =>
         /\ fetch.pc = "idle"
         /\ fetch.out.kind = "returned"
         /\ fetch.out.text # <<>>

C29_Witness_ErrorThenSummaryRecord ==
    /\ Len(built) = 2
    /\ built[1].error = ERR_MODEL_NOT_INITIALIZED
    /\ built[1].transcript = None
    /\ built[2].summary_markdown = "summary"
    /\ built[2].transcript = Some(<<"world">>)
    /\ built[2].error = NoneStr

\* C30: during a multi-item job of N items at no time more than min(3, N)
\* item resolutions are running.
C30_AtMostThreeRunning ==
    Cardinality({i \in DOMAIN futures : futures[i].state = "running"})
        <= (IF Len(video_ids) < 3 THEN Len(video_ids) ELSE 3)

C30_Witness_FourthItemWaits ==
    /\ Len(video_ids) = 4
    /\ Cardinality({i \in DOMAIN futures : futures[i].state = "running"}) = 3
    /\ futures[4].state = "queued"

\* C31: reading a task id that has no record returns absent and creates no
\* record, and update_progress on such an id changes nothing in the cache.
NoRecord ==
    /\ namespaced_key(CACHE_NAMESPACE_PROGRESS, task_id) \notin DOMAIN cache
    /\ namespaced_key(CACHE_NAMESPACE_PROGRESS, task_id) \notin DOMAIN cache_expiry

C31_AbsentIdReadsAbsentAndStaysAbsent ==
    [][NoRecord /\ (Poll \/ TrackerUpdate) =>
         /\ get_progress(task_id) = None
         /\ cache' = cache
         /\ cache_expiry' = cache_expiry
         /\ Poll => seen' = [code |-> 202, status |-> TASK_STATUS_PENDING]]_vars

C31_Witness_PolledAndUpdatedWithoutRecord ==
    /\ ops = 1
    /\ now = 0
    /\ seen = [code |-> 202, status |-> TASK_STATUS_PENDING]
    /\ cache = EmptyDict
    /\ cache_expiry = EmptyDict

\* the slice of the upstream artifact for each window of Windows, written
\* out entry by entry
SliceOfArtifact(start_time, end_time) ==
    IF start_time = None /\ end_time = None THEN <<"hello", " ", "world">>
    ELSE IF start_time = Some(50) /\ end_time = Some(100) THEN <<"world">>
    ELSE IF start_time = None /\ end_time = Some(40) THEN <<"hello">>
    ELSE <<>>

\* the call has found the artifact and the metadata cached, but not the slice
ServedFromCachedArtifact(f) ==
    /\ Truthy(f.cached_transcript)
    /\ Truthy(f.cached_info)
    /\ ~Truthy(f.cached_slice)

\* C32: when the full artifact and the metadata are cached but the slice is
\* not, the call makes no upstream call, returns the slice derived from the
\* cached artifact and, when a window was given and the slice is not empty,
\* leaves that slice cached under the slice key with the slice TTL.
C32_SliceFromCachedArtifact ==
    [][(fetch.pc # "idle" /\ fetch'.pc = "idle"
        /\ ServedFromCachedArtifact(fetch'))
       => LET nk == namespaced_key(CACHE_NAMESPACE_TRANSCRIPTS,
                       <<"slice_", video_id, "_">>
                       \o (IF fetch'.start_time = None THEN <<"None">>
                           ELSE str(fetch'.start_time[1] \div 10))
                       \o <<"_">>
                       \o (IF fetch'.end_time = None THEN <<"None">>
                           ELSE str(fetch'.end_time[1] \div 10)))
              text == SliceOfArtifact(fetch'.start_time, fetch'.end_time)
              windowed == fetch'.start_time # None \/ fetch'.end_time # None
          IN /\ \A event \in events' :
                  event.call = fetch_calls' => event.op = "set_cached_data"
             /\ info_threads'[fetch_calls'].pc = "not_started"
             /\ fetch'.out = FetchReturned(text, fetch'.cached_info)
             /\ (windowed /\ text # <<>>) =>
                  /\ nk \in DOMAIN cache'
                  /\ cache'[nk] = pickle_dumps(PyValue("str", 0, text))
                  /\ cache_expiry'[nk] = now' + 86400]_vars

C32_Witness_SliceWrittenFromCachedArtifact ==
    /\ fetch_calls = 2
    /\ fetch.pc = "idle"
    /\ ServedFromCachedArtifact(fetch)
    /\ fetch.start_time = Some(50)
    /\ fetch.end_time = Some(100)
    /\ fetch.out = FetchReturned(<<"world">>, fetch.cached_info)
    /\ namespaced_key(CACHE_NAMESPACE_TRANSCRIPTS,
                      <<"slice_", video_id, "_", "5", "_", "1", "0">>)
          \in DOMAIN cache
    /\ \A event \in events :
         event.call = 2 => event.op = "set_cached_data"

\* C33: within one summarize_text call each credential is tried at most
\* once before the call ends, also when several workers of one job run
\* summarize_text concurrently on the shared VideoModel.
C33_EachCredentialOncePerCall ==
    \A w \in Summarizers :
       \A a, b \in DOMAIN sz[w].attempts :
          a # b => sz[w].attempts[a] # sz[w].attempts[b]

\* the keys of the cache that hold the artifact or a slice of the id
ArtifactOrSliceKey(key) ==
    \/ key = <<video_id>>
    \/ Len(key) >= 2 /\ key[1] = "slice_" /\ key[2] = video_id

\* C34: when the full-artifact fetch is exhausted (every retry fails, or no
\* data is returned), the call raises an upstream error and writes neither
\* a full-artifact entry nor a slice entry for that id to the cache.
C34_ExhaustedFetchRaisesAndCachesNothing ==
    (/\ fetch_calls >= 1
     /\ fetch.pc = "idle"
     /\ ~(Truthy(fetch.cached_slice) /\ Truthy(fetch.cached_info))
     /\ ~Truthy(fetch.cached_transcript)
     /\ ~Truthy(fetch.transcript_data))
    => /\ fetch.out.kind = "raised"
       /\ fetch.out.error = ERR_UPSTREAM
       /\ \A event \in events :
            (event.call = fetch_calls /\ event.op = "set_cached_data")
               => ~ArtifactOrSliceKey(event.key)
       /\ \A nk \in DOMAIN cache :
            \A key \in {<<video_id>>} \cup {e.key : e \in events} :
               (ArtifactOrSliceKey(key)
                /\ nk = <<"transcripts", ":">> \o key)
               => (\E event \in events :
                      /\ event.call < fetch_calls
                      /\ event.op = "set_cached_data"
                      /\ event.key = key)

C34_Witness_UpstreamTriedAndRaised ==
    /\ fetch_calls = 1
    /\ fetch.pc = "idle"
    /\ fetch.out = FetchRaised(ERR_UPSTREAM)
    /\ \E event \in events :
         event.call = 1 /\ event.op = "_fetch_transcript_from_api"
    /\ DOMAIN cache \subseteq {<<"transcripts", ":", "info_", video_id>>}

\* the record of the task as the cache holds it
StoredRecord(c) ==
    pickle_loads(c[namespaced_key(CACHE_NAMESPACE_PROGRESS, task_id)])

\* C35: mark_task_completed and mark_task_failed are independent of the
\* counters: on an existing record they set the terminal status and set
\* result or append one error, and leave total_items, completed_items and
\* current_item_details unchanged.
C35_TerminalMarksLeaveCounters ==
    [][(get_progress(task_id) # None
        /\ (TrackerMarkCompleted \/ TrackerMarkFailed))
       => LET old == get_progress(task_id)[1]
              new == StoredRecord(cache')
          IN /\ new.total_items = old.total_items
             /\ new.completed_items = old.completed_items
             /\ new.current_item_details = old.current_item_details
             /\ TrackerMarkCompleted =>
                  /\ new.status = "completed"
                  /\ new.result = Some(process_video("X1", "ok"))
                  /\ new.errors = old.errors
             /\ TrackerMarkFailed =>
                  /\ new.status = "failed"
                  /\ new.result = old.result
                  /\ Len(new.errors) = Len(old.errors) + 1
                  /\ SubSeq(new.errors, 1, Len(old.errors)) = old.errors
                  /\ new.errors[Len(new.errors)].item_details.label
                       = "Overall task"]_vars

C35_Witness_FailedAfterOneOfTwo ==
    /\ ~NoRecord
    /\ StoredRecord(cache).status = "failed"
    /\ StoredRecord(cache).total_items = 2
    /\ StoredRecord(cache).completed_items = 1
    /\ StoredRecord(cache).current_item_details.label = "Processed"
    /\ Len(StoredRecord(cache).errors) = 1
    /\ StoredRecord(cache).errors[1].item_details.label = "Overall task"

\* what get_cached_data(namespace, key) returns on the backend in use, for
\* the two dicts c and e or the external store rs
GetReturns(c, e, rs, namespace, key, t) ==
    IF use_redis
    THEN LET value == redis_get(rs, namespaced_key(namespace, key), t)
         IN IF value # None THEN Some(pickle_loads(value[1])) ELSE None
    ELSE get_cached_data([c |-> c, e |-> e], namespace, key, t)

\* C36: namespaces partition the cache: for any two different namespaces A
\* and B and any keys, set, delete and clear_namespace on A never change
\* what get returns for an entry of B, also when namespaces and keys
\* contain the ':' separator.
C36_NamespacesPartitionTheCache ==
    [][(cache_calls' = cache_calls + 1
        /\ last'.op \in {"set", "delete", "clear_namespace"})
       => \A entry \in CacheEntries :
             entry[1] # last'.namespace
             => GetReturns(cache', cache_expiry', redis', entry[1], entry[2],
                           now')
                = GetReturns(cache, cache_expiry, redis, entry[1], entry[2],
                             now)]_vars

\* C37: for one id, whatever windows earlier requests used, the slice text
\* a call returns for a window (start, end) equals the filter of the full
\* artifact by that same window; a request never receives a slice that was
\* cached for a different window.
C37_SliceIsOfTheRequestedWindow ==
    (fetch_calls >= 1 /\ fetch.pc = "idle" /\ fetch.out.kind = "returned")
    => fetch.out.text = SliceOfArtifact(fetch.start_time, fetch.end_time)

\* C38: a single-item job goes from pending directly to completed or failed
\* without any update_progress call: its record is never in_progress, and
\* in its terminal state completed_items is still 0 while total_items is 1.
C38_SingleItemTerminalCounters ==
    (url # "playlist" /\ HasRecord)
    => /\ Rec.status # TASK_STATUS_IN_PROGRESS
       /\ Rec.status \in Terminal =>
            /\ Rec.completed_items = 0
            /\ Rec.total_items = 1

\* the 'Overall task' entries of the record's errors
OverallTaskEntries ==
    {i \in DOMAIN Rec.errors : Rec.errors[i].item_details = OverallTask}

\* C39: a job that fails records its failure once: when the task ends
\* failed, errors contains exactly one 'Overall task' entry, in every
\* interleaving of the controller's mark_task_failed, the runner's status
\* check and the submit handler's initialize_progress.
C39_FailureRecordedOnce ==
    (/\ submit_pc = "done"
     /\ job_pc = "done"
     /\ HasRecord
     /\ Rec.status = TASK_STATUS_FAILED)
    => Cardinality(OverallTaskEntries) = 1

\* C40: when a multi-item job returns its result collection, every slot
\* holds a record (none is left null), even if a worker's item resolution
\* raises or a progress update raises in the fan-in loop.
C40_NoSlotLeftNull ==
    FanOutReturned =>
        /\ Len(result[1].videos) = Len(video_ids)
        /\ \A i \in 1..Len(video_ids) :
             /\ result[1].videos[i] # NullSlot
             /\ result[1].videos[i].id = video_ids[i]

\* three items: the resolution of the second one raised, and two of the
\* three progress updates raised
C40_Witness_RaisedItemAndRaisedUpdates ==
    /\ FanOutReturned
    /\ Len(video_ids) = 3
    /\ futures[2].outcome = "unexpected"
    /\ result[1].videos[2].error = ERR_UNEXPECTED_ITEM
    /\ result[1].videos[1].error = NoneStr
    /\ completed_count = 3
    /\ HasRecord
    /\ Rec.completed_items = 1

====
